---- MODULE Spec2Model ----
(***************************************************************************)
(* A model of the DigitalSynthesizer engine: the modulation router and its *)
(* targets, the block processor's MIDI-interleaved rendering, the          *)
(* multi-voice envelope and the oscillator's zero-crossing note-off.       *)
(*                                                                         *)
(* Normalised float values (modulation values, ranges, envelope levels)    *)
(* are carried in hundredths: 100 stands for 1.0f, 75 for 0.75f.           *)
(***************************************************************************)
EXTENDS Integers, Sequences, FiniteSets, TLC

VARIABLES
    \* ---- ModulationRouter (Knob.h 617-619) ----
    sourceToTargets,   \* source -> vector of targets, keys present only
    targetToSource,    \* target -> source, keys present only
    lastModValues,     \* source -> last pushed value, keys present only
    \* ---- the targets (Knob::modEngine, ModulationTarget::current*) ----
    engine,            \* target -> [mode, min, max, value]
    paramValue,        \* base parameter -> normalised value in the APVTS
    modSource,         \* base parameter -> persisted _MOD_SOURCE
    modIndex,          \* base parameter -> persisted _MOD_INDEX
    sourceIndex,       \* proxy -> ModulationTarget::currentSourceIndex
    \* ---- bookkeeping of the router session ----
    everPushed,        \* sources that pushed at least once since construction
    lastPushed,        \* source -> the value of its most recent push
    clearedSince,      \* sources whose last push predates the last disconnectAll
    recv,              \* target -> values setModulationValue got in the last step
    lastOp,            \* the operation the last step performed
    \* ---- Envelope (Envelope.h 216-237) ----
    voiceEnvelopes,    \* slot -> VoiceEnvelope: note, active flag and its EnvelopeADSR
    envelopeMode,      \* Envelope::mode
    envelopeNorms,     \* attackNorm, decayNorm, sustainNorm, releaseNorm
    \* ---- bookkeeping of the envelope's calls ----
    autoSince,         \* slots started in Auto-Release whose mode has not changed since
    peaked,            \* slots of autoSince whose output reached 0.99 since note-on
    noteOnDropped,     \* the last step was a noteOn that claimed no slot
    \* ---- Oscillator (Oscillator.h 257-258) and processBlock ----
    notes,             \* Oscillator::notes, MIDI note -> NoteData, keys present only
    pLastNote,         \* the key of the note Oscillator::pLastNote points to, or -1
    currentSample,     \* currentSample of handleMidiAndRender
    pc,                \* where processBlock stands
    rendered,          \* the samples rendered in this block, in rendering order
    eventLog,          \* the sample positions of the events applied in this block
    \* ---- LFO (LFO.h 221-224) ----
    lfos,              \* LFO index -> [isTriggered, modulationActive, bypassed]
    \* ---- Oscillator::latestParams and the keyboard ----
    octave,            \* latestParams.octave, -2..2
    heldKeys,          \* key held down on the keyboard -> the note its note-on started
    \* ---- LFO::advance and LFO::getNextValue (LFO.h 225-235) ----
    lfoParams,         \* frequencyHz, shape and the block the host asks for
    lfoPhase,          \* LFO::phase, a 32-bit float
    modulationBuffer,  \* LFO::modulationBuffer, as runs of equal values
    bufferIndex,       \* LFO::bufferIndex
    advanceIndex,      \* i of the loop of advance, -1 outside advance
    lfoBlocks,         \* calls of advance so far
    lfoReads,          \* calls of getNextValue since advance that read the buffer
    lfoReturned,       \* what the last getNextValue returned, and whether it read the buffer
    \* ---- Filter (Filter.h 176-180) ----
    filterApvts,       \* the values of the filter's parameters in the APVTS
    currentParams,     \* Filter::currentParams
    needsUpdate,       \* Filter::needsUpdate
    ladderFilter,      \* what updateFilter last configured the ladder filter with
    filterPc,          \* where updateParameters stands with this filter
    filterLast,        \* the last call on the filter and whether it ran updateFilter
    paramsAtUpdate,    \* currentParams at the last updateFilter, <<>> before the first
    \* ---- Oscillator: unison voices (Oscillator.h 257-270) ----
    voicesParam,       \* the value of OSCn_VOICES in the APVTS
    latestVoices,      \* latestParams.voices
    notePhases,        \* note -> NoteData::phases, keys present only
    lastNote,          \* the key of the note pLastNote points to, or -1
    cachedSizes,       \* the sizes of cachedDetuneCents, cachedLeftGains, cachedRightGains
    unisonOp           \* the last call on the oscillator and what it did with the arrays

routerVars == <<sourceToTargets, targetToSource, lastModValues, engine,
                paramValue, modSource, modIndex, sourceIndex,
                everPushed, lastPushed, clearedSince, recv, lastOp>>

envVars == <<voiceEnvelopes, envelopeMode, envelopeNorms,
             autoSince, peaked, noteOnDropped>>

procVars == <<notes, pLastNote, currentSample, pc, rendered, eventLog>>

lfoVars == <<lfos>>

lfoBufferVars == <<lfoParams, lfoPhase, modulationBuffer, bufferIndex,
                   advanceIndex, lfoBlocks, lfoReads, lfoReturned>>

filterVars == <<filterApvts, currentParams, needsUpdate, ladderFilter,
                filterPc, filterLast, paramsAtUpdate>>

keyboardVars == <<octave, heldKeys>>

unisonVars == <<voicesParam, latestVoices, notePhases, lastNote, cachedSizes, unisonOp>>

dspVars == <<keyboardVars, lfoBufferVars, filterVars, unisonVars>>

vars == <<routerVars, envVars, procVars, lfoVars, dspVars>>

-----------------------------------------------------------------------------
(* Generic helpers for std::unordered_map and std::vector                  *)

MapPut(f, k, v) == [x \in (DOMAIN f) \cup {k} |-> IF x = k THEN v ELSE f[x]]

MapErase(f, k) == [x \in (DOMAIN f) \ {k} |-> f[x]]

EmptyMap == [x \in {} |-> 0]

SeqRemove(seq, t) == SelectSeq(seq, LAMBDA x : x # t)

SeqToSet(seq) == {seq[i] : i \in 1..Len(seq)}

Occurrences(seq, t) == Cardinality({i \in 1..Len(seq) : seq[i] = t})

jlimit(lo, hi, v) == IF v < lo THEN lo ELSE IF v > hi THEN hi ELSE v

-----------------------------------------------------------------------------
(* The domain of the router model                                          *)

Env0 == [type |-> "Envelope", index |-> 0]
LFO0 == [type |-> "LFO", index |-> 0]

Sources == {Env0, LFO0}

Knobs == {"K1"}
Proxies == {"P1"}
Targets == Knobs \cup Proxies

\* the base parameter each target drives: knob K1 and proxy P1 share one
ParamOf(t) == "A"
Params == {"A"}

\* persisted _MOD_MIN / _MOD_MAX of each base parameter
ApvtsMin(p) == 20
ApvtsMax(p) == 60

\* default (normalised) value of each base parameter
ParamDefault(p) == 0

PushValues == {25, 75}

NoOp == [op |-> "none", source |-> Env0, target |-> "null", prev |-> <<>>]

NullTarget == "null"

IsKnob(t) == t \in Knobs

IsModulated(m) == m \in {"Envelope", "LFO"}

\* The whole mutable state the router operations work on, as one record,
\* so that an operation that calls another composes as the code does.
World == [s2t |-> sourceToTargets, t2s |-> targetToSource,
          last |-> lastModValues, eng |-> engine, par |-> paramValue,
          src |-> modSource, idx |-> modIndex, cur |-> sourceIndex,
          rcv |-> [t \in Targets |-> <<>>]]

-----------------------------------------------------------------------------
(* The targets: Knob (Knob.cpp) and ModulationTarget (ModulationTarget.cpp) *)

\* KnobModulationEngine::setRange
KnobEngine_setRange(e, lo, hi) ==
    LET mn == jlimit(0, 100, lo)
        mx == jlimit(mn, 100, hi)
    IN  [e EXCEPT !.min = mn, !.max = mx]

\* KnobModulationEngine::setMode
KnobEngine_setMode(e, m) ==
    IF IsModulated(m) THEN [e EXCEPT !.mode = m, !.min = 0, !.max = 100]
                      ELSE [e EXCEPT !.mode = m]

\* Knob::setModulationMode / ModulationTarget::setModulationMode
setModulationMode(w, t, m) ==
    IF IsKnob(t)
    THEN LET e1 == KnobEngine_setMode(w.eng[t], m)
             e2 == IF IsModulated(m)
                   THEN KnobEngine_setRange(e1, ApvtsMin(ParamOf(t)), ApvtsMax(ParamOf(t)))
                   ELSE e1
         IN  [w EXCEPT !.eng[t] = e2]
    ELSE [w EXCEPT !.eng[t].mode = m]

\* variant: sets Manual mode but keeps the modulation range
clearModulation_KeepsRange(w, t) ==
    IF IsKnob(t)
    THEN [w EXCEPT !.eng[t].mode = "Manual", !.eng[t].value = 0]
    ELSE [w EXCEPT !.eng[t].mode = "Manual"]

\* Knob::clearModulation (KnobModulationEngine::clear) / ModulationTarget::clearModulation
clearModulation(w, t) ==
    IF IsKnob(t)
    THEN [w EXCEPT !.eng[t] = [mode |-> "Manual", min |-> 0, max |-> 100, value |-> 0]]
    ELSE [w EXCEPT !.eng[t].mode = "Manual", !.eng[t].min = 0, !.eng[t].max = 100]

\* variant: the value is written as it comes, without the remap through the range
setModulationValue_NoRemap(w, t, v) ==
    LET e == w.eng[t]
        w1 == [w EXCEPT !.rcv[t] = Append(@, v)]
    IN  IF IsKnob(t)
        THEN LET w2 == [w1 EXCEPT !.eng[t].value = jlimit(0, 100, v)]
             IN  IF IsModulated(e.mode)
                 THEN [w2 EXCEPT !.par[ParamOf(t)] = jlimit(0, 100, v)]
                 ELSE w2
        ELSE [w1 EXCEPT !.par[ParamOf(t)] = v]

\* Knob::setModulationValue / ModulationTarget::setModulationValue
setModulationValue(w, t, v) ==
    LET e == w.eng[t]
        scaled == e.min + ((e.max - e.min) * v) \div 100
        w1 == [w EXCEPT !.rcv[t] = Append(@, v)]
    IN  IF IsKnob(t)
        THEN LET w2 == [w1 EXCEPT !.eng[t].value = jlimit(0, 100, v)]
             IN  IF IsModulated(e.mode)
                 THEN [w2 EXCEPT !.par[ParamOf(t)] = jlimit(0, 100, scaled)]
                 ELSE w2
        ELSE [w1 EXCEPT !.par[ParamOf(t)] = scaled]

-----------------------------------------------------------------------------
(* ModulationRouter (KnobModulation.cpp 173-337)                           *)

\* std::unordered_map::operator[]: the vector stored under the key, default-constructed if absent
TargetsOf(s2t, s) == IF s \in DOMAIN s2t THEN s2t[s] ELSE <<>>

ModeOfSource(s) == IF s.type = "Envelope" THEN "Envelope" ELSE "LFO"

\* variant: drops the reverse edge and resets the target, but leaves the target in
\* its old source's vector
ModulationRouter_disconnect_KeepsListEntry(w, t) ==
    IF t = NullTarget \/ t \notin DOMAIN w.t2s THEN w
    ELSE LET w1 == [w EXCEPT !.t2s = MapErase(w.t2s, t)]
         IN  clearModulation(setModulationMode(w1, t, "Manual"), t)

ModulationRouter_disconnect(w, t) ==
    IF t = NullTarget \/ t \notin DOMAIN w.t2s THEN w
    ELSE LET source == w.t2s[t]
             targets == SeqRemove(TargetsOf(w.s2t, source), t)
             s2t1 == IF targets = <<>> THEN MapErase(w.s2t, source)
                                       ELSE MapPut(w.s2t, source, targets)
             w1 == [w EXCEPT !.s2t = s2t1, !.t2s = MapErase(w.t2s, t)]
         IN  clearModulation(setModulationMode(w1, t, "Manual"), t)

\* variant: inserts the new edge without removing the previous one
ModulationRouter_connect_NoDisconnect(w, s, t) ==
    LET w2 == [w EXCEPT !.s2t = MapPut(w.s2t, s, Append(TargetsOf(w.s2t, s), t)),
                        !.t2s = MapPut(w.t2s, t, s)]
    IN  setModulationMode(w2, t, ModeOfSource(s))

ModulationRouter_connect(w, s, t) ==
    LET w1 == ModulationRouter_disconnect(w, t)
        w2 == [w1 EXCEPT !.s2t = MapPut(w1.s2t, s, Append(TargetsOf(w1.s2t, s), t)),
                         !.t2s = MapPut(w1.t2s, t, s)]
    IN  setModulationMode(w2, t, ModeOfSource(s))

\* variant: after erasing a null entry the iterator is advanced once more, so the
\* entry behind the null is kept but gets no value
RECURSIVE PushLoop_SkipsAfterErase(_, _, _, _)
PushLoop_SkipsAfterErase(w, targets, kept, v) ==
    IF targets = <<>> THEN [world |-> w, kept |-> kept]
    ELSE IF Head(targets) = NullTarget
         THEN IF Len(targets) = 1 THEN [world |-> w, kept |-> kept]
              ELSE PushLoop_SkipsAfterErase(w, Tail(Tail(targets)),
                                            Append(kept, targets[2]), v)
         ELSE PushLoop_SkipsAfterErase(setModulationValue(w, Head(targets), v),
                                       Tail(targets), Append(kept, Head(targets)), v)

\* the loop of pushModulationValue over one source's vector: forwards the value
\* to each non-null target in order and erases the null entries
RECURSIVE PushLoop(_, _, _, _)
PushLoop(w, targets, kept, v) ==
    IF targets = <<>> THEN [world |-> w, kept |-> kept]
    ELSE IF Head(targets) = NullTarget
         THEN PushLoop(w, Tail(targets), kept, v)
         ELSE PushLoop(setModulationValue(w, Head(targets), v), Tail(targets),
                       Append(kept, Head(targets)), v)

ModulationRouter_pushModulationValue(w, s, v) ==
    LET w1 == [w EXCEPT !.last = MapPut(w.last, s, v)]
    IN  IF s \notin DOMAIN w1.s2t THEN w1
        ELSE LET r == PushLoop(w1, w1.s2t[s], <<>>, v)
             IN  [r.world EXCEPT !.s2t = MapPut(r.world.s2t, s, r.kept)]

\* the loop of disconnectAllTargetsUsing: clears every non-null target, resets a
\* Knob's parameter to its default and drops the reverse edge
RECURSIVE DisconnectUsingLoop(_, _)
DisconnectUsingLoop(w, targets) ==
    IF targets = <<>> THEN w
    ELSE LET t == Head(targets)
         IN  IF t = NullTarget THEN DisconnectUsingLoop(w, Tail(targets))
             ELSE LET w1 == setModulationMode(clearModulation(w, t), t, "Manual")
                      w2 == IF IsKnob(t)
                            THEN [w1 EXCEPT !.par[ParamOf(t)] = ParamDefault(ParamOf(t))]
                            ELSE w1
                      w3 == [w2 EXCEPT !.t2s = MapErase(w2.t2s, t)]
                  IN  DisconnectUsingLoop(w3, Tail(targets))

\* variant: drops the source's vector but leaves the reverse edges of its targets
ModulationRouter_disconnectAllTargetsUsing_KeepsReverseEdges(w, s) ==
    IF s \notin DOMAIN w.s2t THEN w
    ELSE [w EXCEPT !.s2t = MapErase(w.s2t, s)]

\* variant: also forgets the source's last pushed value
ModulationRouter_disconnectAllTargetsUsing_ForgetsValue(w, s) ==
    IF s \notin DOMAIN w.s2t THEN [w EXCEPT !.last = MapErase(w.last, s)]
    ELSE LET w1 == DisconnectUsingLoop(w, w.s2t[s])
         IN  [w1 EXCEPT !.s2t = MapErase(w1.s2t, s), !.last = MapErase(w1.last, s)]

ModulationRouter_disconnectAllTargetsUsing(w, s) ==
    IF s \notin DOMAIN w.s2t THEN w
    ELSE LET w1 == DisconnectUsingLoop(w, w.s2t[s])
         IN  [w1 EXCEPT !.s2t = MapErase(w1.s2t, s)]

\* the loop of disconnectAll over targetToSource (the order of an unordered_map
\* does not matter here: each step touches one target only)
RECURSIVE DisconnectAllLoop(_, _)
DisconnectAllLoop(w, ts) ==
    IF ts = {} THEN w
    ELSE LET t == CHOOSE x \in ts : TRUE
             w1 == IF t = NullTarget THEN w
                   ELSE setModulationMode(clearModulation(w, t), t, "Manual")
         IN  DisconnectAllLoop(w1, ts \ {t})

ModulationRouter_disconnectAll(w) ==
    LET w1 == DisconnectAllLoop(w, DOMAIN w.t2s)
    IN  [w1 EXCEPT !.s2t = EmptyMap, !.t2s = EmptyMap, !.last = EmptyMap]

RECURSIVE RetriggerLoop(_, _, _)
RetriggerLoop(w, targets, v) ==
    IF targets = <<>> THEN w
    ELSE IF Head(targets) = NullTarget THEN RetriggerLoop(w, Tail(targets), v)
         ELSE RetriggerLoop(setModulationValue(w, Head(targets), v), Tail(targets), v)

ModulationRouter_retriggerPush(w, s) ==
    IF s \notin DOMAIN w.last THEN w
    ELSE IF s \notin DOMAIN w.s2t THEN w
    ELSE RetriggerLoop(w, w.s2t[s], w.last[s])

\* variant: connects whether or not the source has a stored value
ModulationRouter_connectIfAlive_Always(w, s, t) ==
    ModulationRouter_retriggerPush(ModulationRouter_connect(w, s, t), s)

\* variant: connects without replaying the last value
ModulationRouter_connectIfAlive_NoReplay(w, s, t) ==
    IF s \in DOMAIN w.last
    THEN ModulationRouter_connect(w, s, t)
    ELSE w

ModulationRouter_connectIfAlive(w, s, t) ==
    IF s \in DOMAIN w.last
    THEN ModulationRouter_retriggerPush(ModulationRouter_connect(w, s, t), s)
    ELSE w

ModulationRouter_getSourceForTarget(w, t) ==
    IF t \in DOMAIN w.t2s THEN <<w.t2s[t]>> ELSE <<>>

-----------------------------------------------------------------------------
(* Preset load (PresetManager::loadPreset) and what it calls               *)

SourceOf(mode, index) ==
    [type |-> IF mode = "Envelope" THEN "Envelope" ELSE "LFO", index |-> index]

\* ModulationTarget::parameterChanged for the proxy's _MOD_SOURCE
ModulationTarget_sourceChanged(w, t, newMode) ==
    IF newMode = w.eng[t].mode THEN w
    ELSE LET w1 == ModulationRouter_disconnect(w, t)
             w2 == [w1 EXCEPT !.eng[t].mode = newMode]
         IN  IF IsModulated(newMode)
             THEN ModulationRouter_connect(w2, SourceOf(newMode, w2.cur[t]), t)
             ELSE w2

\* ModulationTarget::parameterChanged for the proxy's _MOD_INDEX
ModulationTarget_indexChanged(w, t, newIndex) ==
    IF newIndex = w.cur[t] THEN w
    ELSE LET m == w.eng[t].mode
             w1 == IF IsModulated(m)
                   THEN ModulationRouter_connect(ModulationRouter_disconnect(w, t),
                                                 SourceOf(m, newIndex), t)
                   ELSE w
         IN  [w1 EXCEPT !.cur[t] = newIndex]

ProxiesOf(p) == {t \in Proxies : ParamOf(t) = p}

RECURSIVE NotifySource(_, _, _)
NotifySource(w, ts, newMode) ==
    IF ts = {} THEN w
    ELSE LET t == CHOOSE x \in ts : TRUE
         IN  NotifySource(ModulationTarget_sourceChanged(w, t, newMode), ts \ {t}, newMode)

RECURSIVE NotifyIndex(_, _, _)
NotifyIndex(w, ts, newIndex) ==
    IF ts = {} THEN w
    ELSE LET t == CHOOSE x \in ts : TRUE
         IN  NotifyIndex(ModulationTarget_indexChanged(w, t, newIndex), ts \ {t}, newIndex)

\* a parameter of the APVTS takes a new value: the store is written and the
\* listeners run only when the value differs from the stored one
Apvts_setModSource(w, p, newMode) ==
    IF w.src[p] = newMode THEN w
    ELSE NotifySource([w EXCEPT !.src[p] = newMode], ProxiesOf(p), newMode)

Apvts_setModIndex(w, p, newIndex) ==
    IF w.idx[p] = newIndex THEN w
    ELSE NotifyIndex([w EXCEPT !.idx[p] = newIndex], ProxiesOf(p), newIndex)

\* apvts.replaceState(newTree): every parameter takes the tree's value; sourceFirst
\* is the order in which the tree lists _MOD_SOURCE and _MOD_INDEX
RECURSIVE Apvts_replaceState(_, _, _, _)
Apvts_replaceState(w, ps, tree, sourceFirst) ==
    IF ps = {} THEN w
    ELSE LET p == CHOOSE x \in ps : TRUE
             w1 == [w EXCEPT !.par[p] = tree[p].value]
             w2 == IF sourceFirst
                   THEN Apvts_setModIndex(Apvts_setModSource(w1, p, tree[p].mode), p, tree[p].index)
                   ELSE Apvts_setModSource(Apvts_setModIndex(w1, p, tree[p].index), p, tree[p].mode)
         IN  Apvts_replaceState(w2, ps \ {p}, tree, sourceFirst)

\* the processor's knobs vector, in registration order
RegisteredKnobs == <<"K1">>

\* DigitalSynthesizerAudioProcessor::restoreModulationRouting
RECURSIVE restoreModulationRouting(_, _)
restoreModulationRouting(w, knobs) ==
    IF knobs = <<>> THEN w
    ELSE LET knob == Head(knobs)
             mode == w.src[ParamOf(knob)]
             index == w.idx[ParamOf(knob)]
             w1 == IF IsModulated(mode)
                   THEN ModulationRouter_connect(w, SourceOf(mode, index), knob)
                   ELSE w
         IN  restoreModulationRouting(w1, Tail(knobs))

\* PresetManager::loadPreset once the file has parsed to a valid tree; the tree
\* maps the parameters it has a child for to their values
PresetManager_loadPreset(w, tree, sourceFirst) ==
    LET w1 == Apvts_replaceState(w, DOMAIN tree, tree, sourceFirst)
        w2 == ModulationRouter_disconnectAll(w1)
    IN  restoreModulationRouting(w2, RegisteredKnobs)

\* DigitalSynthesizerAudioProcessor::setStateInformation once the host's block
\* has parsed to XML
setStateInformation(w, tree, sourceFirst) ==
    restoreModulationRouting(Apvts_replaceState(w, DOMAIN tree, tree, sourceFirst),
                             RegisteredKnobs)

\* the presets considered: each parameter's value, _MOD_SOURCE and _MOD_INDEX
PresetEntries ==
    {[value |-> 50, mode |-> "Manual", index |-> 0]}
    \cup {[value |-> 50, mode |-> ModeOfSource(s), index |-> s.index] : s \in Sources}

PresetTrees == [Params -> PresetEntries]

\* Preset files that are not presets of this plugin: a file that is no XML document
\* (juce::XmlDocument::parse returns null) and an XML document with some other
\* content, which parses to a valid ValueTree that has no child for any parameter
MalformedFiles == {"unparseable", "foreign"}

\* juce::XmlDocument::parse followed by juce::ValueTree::fromXml: the tree, or
\* nothing; the root of a parsed document is never a text element, so every
\* parsed document gives a valid tree
ParsedTree(file) == IF file = "unparseable" THEN <<>> ELSE <<EmptyMap>>

\* PresetManager::loadPreset on such a file: the state it leaves and the value it
\* returns
PresetManager_loadPresetFile(w, file) ==
    LET newTree == ParsedTree(file)
    IN  IF newTree # <<>>
        THEN [world |-> PresetManager_loadPreset(w, newTree[1], TRUE), result |-> TRUE]
        ELSE [world |-> w, result |-> FALSE]

-----------------------------------------------------------------------------
(* The router specification: any sequence of router operations and preset  *)
(* loads on a running processor                                            *)

Commit(w, op) ==
    /\ sourceToTargets' = w.s2t
    /\ targetToSource' = w.t2s
    /\ lastModValues' = w.last
    /\ engine' = w.eng
    /\ paramValue' = w.par
    /\ modSource' = w.src
    /\ modIndex' = w.idx
    /\ sourceIndex' = w.cur
    /\ recv' = w.rcv
    /\ lastOp' = op
    /\ UNCHANGED <<envVars, procVars, lfoVars, dspVars>>

\* the record of a step: the operation, its arguments and the source the target
\* had before it (getSourceForTarget, as a sequence of at most one source)
Op(name, s, t) ==
    [op |-> name, source |-> s, target |-> t,
     prev |-> IF t \in DOMAIN targetToSource THEN <<targetToSource[t]>> ELSE <<>>]

\* state after construction with default parameters: KnobModulationEngine's field
\* defaults, _MOD_SOURCE None, _MOD_INDEX 0, an empty router
RouterInit ==
    /\ sourceToTargets = EmptyMap
    /\ targetToSource = EmptyMap
    /\ lastModValues = EmptyMap
    /\ engine = [t \in Targets |->
                   IF IsKnob(t)
                   THEN [mode |-> "None", min |-> ApvtsMin(ParamOf(t)),
                         max |-> ApvtsMax(ParamOf(t)), value |-> 0]
                   ELSE [mode |-> "None", min |-> ApvtsMin(ParamOf(t)),
                         max |-> ApvtsMax(ParamOf(t)), value |-> 0]]
    /\ paramValue = [p \in Params |-> ParamDefault(p)]
    /\ modSource = [p \in Params |-> "None"]
    /\ modIndex = [p \in Params |-> 0]
    /\ sourceIndex = [t \in Proxies |-> 0]
    /\ everPushed = {}
    /\ lastPushed = EmptyMap
    /\ clearedSince = {}
    /\ recv = [t \in Targets |-> <<>>]
    /\ lastOp = NoOp

Connect(s, t) ==
    /\ Commit(ModulationRouter_connect(World, s, t), Op("connect", s, t))
    /\ UNCHANGED <<everPushed, lastPushed, clearedSince>>

Disconnect(t) ==
    /\ Commit(ModulationRouter_disconnect(World, t), Op("disconnect", Env0, t))
    /\ UNCHANGED <<everPushed, lastPushed, clearedSince>>

PushModulationValue(s, v) ==
    /\ Commit(ModulationRouter_pushModulationValue(World, s, v), Op("push", s, NullTarget))
    /\ everPushed' = everPushed \cup {s}
    /\ lastPushed' = MapPut(lastPushed, s, v)
    /\ clearedSince' = clearedSince \ {s}

DisconnectAllTargetsUsing(s) ==
    /\ Commit(ModulationRouter_disconnectAllTargetsUsing(World, s),
              Op("disconnectAllTargetsUsing", s, NullTarget))
    /\ UNCHANGED <<everPushed, lastPushed, clearedSince>>

DisconnectAll ==
    /\ Commit(ModulationRouter_disconnectAll(World), Op("disconnectAll", Env0, NullTarget))
    /\ clearedSince' = everPushed
    /\ UNCHANGED <<everPushed, lastPushed>>

RetriggerPush(s) ==
    /\ Commit(ModulationRouter_retriggerPush(World, s), Op("retriggerPush", s, NullTarget))
    /\ UNCHANGED <<everPushed, lastPushed, clearedSince>>

ConnectIfAlive(s, t) ==
    /\ Commit(ModulationRouter_connectIfAlive(World, s, t), Op("connectIfAlive", s, t))
    /\ UNCHANGED <<everPushed, lastPushed, clearedSince>>

LoadPreset(tree, sourceFirst) ==
    /\ Commit(PresetManager_loadPreset(World, tree, sourceFirst), Op("loadPreset", Env0, NullTarget))
    /\ clearedSince' = everPushed
    /\ UNCHANGED <<everPushed, lastPushed>>

LoadMalformedPreset(file) ==
    LET r == PresetManager_loadPresetFile(World, file)
    IN  /\ Commit(r.world, Op(IF r.result THEN "loadPreset" ELSE "loadPresetFailed",
                              Env0, NullTarget))
        /\ clearedSince' = IF r.result THEN everPushed ELSE clearedSince
        /\ UNCHANGED <<everPushed, lastPushed>>

SetStateInformation(tree, sourceFirst) ==
    /\ Commit(setStateInformation(World, tree, sourceFirst),
              Op("setStateInformation", Env0, NullTarget))
    /\ UNCHANGED <<everPushed, lastPushed, clearedSince>>

RouterNext ==
    \/ \E s \in Sources, t \in Targets : Connect(s, t)
    \/ \E t \in Targets \cup {NullTarget} : Disconnect(t)
    \/ \E s \in Sources, v \in PushValues : PushModulationValue(s, v)
    \/ \E s \in Sources : DisconnectAllTargetsUsing(s)
    \/ DisconnectAll
    \/ \E s \in Sources : RetriggerPush(s)
    \/ \E s \in Sources, t \in Targets : ConnectIfAlive(s, t)
    \/ \E tree \in PresetTrees, sourceFirst \in BOOLEAN : LoadPreset(tree, sourceFirst)
    \/ \E file \in MalformedFiles : LoadMalformedPreset(file)

-----------------------------------------------------------------------------
(* The router's loops over a vector that holds null entries.  The vectors  *)
(* are std::vector<ModulatableParameter*>; connect(source, target) appends *)
(* the pointer it is given before it uses it, so a null pointer handed to  *)
(* connect ends up in the source's vector.                                 *)

\* longest vector of a source
MaxVectorLen == 3

NonNull(seq) == SelectSeq(seq, LAMBDA x : x # NullTarget)

\* the vectors of at most MaxVectorLen entries that hold the targets of seq, in
\* their order, and null entries between them
WithNullEntries(seq) ==
    {v \in UNION {[1..n -> Targets \cup {NullTarget}] : n \in 0..MaxVectorLen} :
        NonNull(v) = seq}

\* connect(sourceOf[t], t) for the targets of order that are in connected
RECURSIVE ConnectEach(_, _, _, _)
ConnectEach(w, order, sourceOf, connected) ==
    IF order = <<>> THEN w
    ELSE LET t == Head(order)
             w1 == IF t \in connected
                   THEN ModulationRouter_connect(w, sourceOf[t], t)
                   ELSE w
         IN  ConnectEach(w1, Tail(order), sourceOf, connected)

\* the router and the targets as RouterInit leaves them, as one value
FreshWorld ==
    [s2t |-> EmptyMap, t2s |-> EmptyMap, last |-> EmptyMap,
     eng |-> [t \in Targets |->
                [mode |-> "None", min |-> ApvtsMin(ParamOf(t)),
                 max |-> ApvtsMax(ParamOf(t)), value |-> 0]],
     par |-> [p \in Params |-> ParamDefault(p)],
     src |-> [p \in Params |-> "None"],
     idx |-> [p \in Params |-> 0],
     cur |-> [t \in Proxies |-> 0],
     rcv |-> [t \in Targets |-> <<>>]]

\* the orders in which the targets may have been connected
ConnectOrders == {o \in [1..Cardinality(Targets) -> Targets] : SeqToSet(o) = Targets}

\* a router whose targets were connected, or not, one after the other, and whose
\* vectors hold null entries besides
StaleRouterInit ==
    \E order \in ConnectOrders, sourceOf \in [Targets -> Sources],
       connected \in SUBSET Targets :
        LET w == ConnectEach(FreshWorld, order, sourceOf, connected)
        IN  /\ \E held \in SUBSET Sources :
                  /\ DOMAIN w.s2t \subseteq held
                  /\ sourceToTargets \in
                        {m \in [held -> UNION {WithNullEntries(TargetsOf(w.s2t, s)) : s \in held}] :
                            \A s \in held : /\ NonNull(m[s]) = TargetsOf(w.s2t, s)
                                             /\ m[s] # <<>>}
            /\ targetToSource = w.t2s
            /\ lastModValues = EmptyMap
            /\ engine = w.eng
            /\ paramValue = w.par
            /\ modSource = w.src
            /\ modIndex = w.idx
            /\ sourceIndex = w.cur
            /\ everPushed = {}
            /\ lastPushed = EmptyMap
            /\ clearedSince = {}
            /\ recv = w.rcv
            /\ lastOp = NoOp

\* pushModulationValue; the step records in prev whether the source's vector held
\* a null entry before it
PushOverVector(s, v) ==
    /\ Commit(ModulationRouter_pushModulationValue(World, s, v),
              [op |-> "push", source |-> s, target |-> NullTarget,
               prev |-> IF NullTarget \in SeqToSet(TargetsOf(sourceToTargets, s))
                        THEN <<s>> ELSE <<>>])
    /\ everPushed' = everPushed \cup {s}
    /\ lastPushed' = MapPut(lastPushed, s, v)
    /\ clearedSince' = clearedSince \ {s}

StaleRouterNext ==
    \/ \E s \in Sources, v \in PushValues : PushOverVector(s, v)
    \/ \E s \in Sources : RetriggerPush(s)

-----------------------------------------------------------------------------
(* Construction of the processor: the parameter layout and the headless    *)
(* proxies.  A proxy is named by its position in the processor's           *)
(* modulationTargets vector and carries the base parameter it drives.      *)

NUM_OF_OSCILLATORS == 2
NUM_OF_ENVELOPES == 2
NUM_OF_FILTERS == 2
NUM_OF_LFOS == 4

\* getKnobParamSpecs(id, index).id / getParamSpecs(index)[..].id: the prefix holds
\* the module and index + 1
KnobParamId(module, index, name) == [module |-> module, number |-> index + 1, name |-> name]

\* for (i = index; i < n; ++i) for (name : names): the ids in the order of the loops
RECURSIVE ModuleIds(_, _, _, _)
ModuleIds(module, names, index, n) ==
    IF index >= n THEN <<>>
    ELSE [k \in 1..Len(names) |-> KnobParamId(module, index, names[k])]
         \o ModuleIds(module, names, index + 1, n)

\* createParameterLayout: the parameters that registerModulationParameters gives
\* _MOD_SOURCE, _MOD_INDEX, _MOD_MIN and _MOD_MAX companions, in layout order
registerModulationParameters ==
    ModuleIds("OSC", <<"VOLUME", "PAN", "DETUNE", "VOICES">>, 0, NUM_OF_OSCILLATORS)
    \o ModuleIds("ENV", <<"ATTACK", "DECAY", "SUSTAIN", "RELEASE">>, 0, NUM_OF_ENVELOPES)
    \o ModuleIds("FILTER", <<"CUTOFF", "RESONANCE", "DRIVE", "MIX", "MORPH", "FACTOR">>,
                 0, NUM_OF_FILTERS)
    \o ModuleIds("LFO", <<"FREQ", "SHAPE", "STEPS">>, 0, NUM_OF_LFOS)

ModulatableParameters == SeqToSet(registerModulationParameters)

\* variant: the talkbox knobs of the filters are left out
getAllBaseParameterIDs_NoTalkbox ==
    ModuleIds("OSC", <<"VOLUME", "PAN", "VOICES", "DETUNE">>, 0, NUM_OF_OSCILLATORS)
    \o ModuleIds("ENV", <<"ATTACK", "DECAY", "SUSTAIN", "RELEASE">>, 0, NUM_OF_ENVELOPES)
    \o ModuleIds("FILTER", <<"CUTOFF", "RESONANCE", "DRIVE", "MIX">>, 0, NUM_OF_FILTERS)
    \o ModuleIds("LFO", <<"FREQ", "SHAPE", "STEPS">>, 0, NUM_OF_LFOS)

\* ModulationTarget::getAllBaseParameterIDs
getAllBaseParameterIDs ==
    ModuleIds("OSC", <<"VOLUME", "PAN", "VOICES", "DETUNE">>, 0, NUM_OF_OSCILLATORS)
    \o ModuleIds("ENV", <<"ATTACK", "DECAY", "SUSTAIN", "RELEASE">>, 0, NUM_OF_ENVELOPES)
    \o ModuleIds("FILTER", <<"CUTOFF", "RESONANCE", "DRIVE", "MIX", "MORPH", "FACTOR">>,
                 0, NUM_OF_FILTERS)
    \o ModuleIds("LFO", <<"FREQ", "SHAPE", "STEPS">>, 0, NUM_OF_LFOS)

\* ModulationTarget::setModulationRange
ModulationTarget_setModulationRange(w, t, lo, hi) ==
    [w EXCEPT !.eng[t].min = lo, !.eng[t].max = hi]

\* ModulationTarget::ModulationTarget: proxy t for the base parameter id
ModulationTarget_ModulationTarget(w, t, id) ==
    LET mode == w.src[id]
        w1 == [w EXCEPT !.eng = MapPut(@, t, [mode |-> mode, min |-> ApvtsMin(id),
                                              max |-> ApvtsMax(id), value |-> 0,
                                              base |-> id]),
                        !.cur = MapPut(@, t, w.idx[id])]
        w2 == ModulationTarget_setModulationRange(setModulationMode(w1, t, mode), t,
                                                  w1.eng[t].min, w1.eng[t].max)
    IN  IF IsModulated(mode)
        THEN ModulationRouter_connect(w2, SourceOf(mode, w2.cur[t]), t)
        ELSE w2

\* the proxy held at position k of modulationTargets
ProxyAt(k) == ToString(k)

\* the range-for of initializeModulationTargets over ids: the proxies made so far
\* are the entries of modulationTargets, the next one is made for the next id
RECURSIVE InitializeLoop(_, _)
InitializeLoop(w, ids) ==
    LET k == Cardinality(DOMAIN w.eng) + 1
    IN  IF k > Len(ids) THEN w
        ELSE LET id == ids[k]
                 proxy == ProxyAt(k)
                 w1 == ModulationTarget_ModulationTarget(w, proxy, id)
                 w2 == IF id \in DOMAIN w1.src
                       THEN LET mode == w1.src[id]
                                w3 == ModulationTarget_setModulationRange(
                                          setModulationMode(w1, proxy, mode), proxy,
                                          ApvtsMin(id), ApvtsMax(id))
                            IN  IF IsModulated(mode)
                                THEN ModulationRouter_connect(w3, SourceOf(mode, w1.idx[id]),
                                                              proxy)
                                ELSE w3
                       ELSE w1
             IN  InitializeLoop(w2, ids)

\* DigitalSynthesizerAudioProcessor::initializeModulationTargets
initializeModulationTargets(w) == InitializeLoop(w, getAllBaseParameterIDs)

\* the processor when its constructor reaches initializeModulationTargets: the
\* APVTS holds the layout's defaults, the router is empty, no target exists
ConstructedApvts ==
    [s2t |-> EmptyMap, t2s |-> EmptyMap, last |-> EmptyMap, eng |-> EmptyMap,
     par |-> [id \in ModulatableParameters |-> ParamDefault(id)],
     src |-> [id \in ModulatableParameters |-> "None"],
     idx |-> [id \in ModulatableParameters |-> 0],
     cur |-> EmptyMap,
     rcv |-> [t \in Targets |-> <<>>]]

\* state after the constructor
StartupInit ==
    LET w == initializeModulationTargets(ConstructedApvts)
    IN  /\ sourceToTargets = w.s2t
        /\ targetToSource = w.t2s
        /\ lastModValues = w.last
        /\ engine = w.eng
        /\ paramValue = w.par
        /\ modSource = w.src
        /\ modIndex = w.idx
        /\ sourceIndex = w.cur
        /\ everPushed = {}
        /\ lastPushed = EmptyMap
        /\ clearedSince = {}
        /\ recv = w.rcv
        /\ lastOp = NoOp

\* number of base parameters whose companions the host changes
MaxAutomated == 2

AutomatedParameters == SeqToSet(SubSeq(getAllBaseParameterIDs, 1, MaxAutomated))

ProxiesFor(w, id) == {t \in DOMAIN w.eng : w.eng[t].base = id}

\* the host (or the editor) sets the _MOD_SOURCE of a base parameter; the proxies
\* listening to it run parameterChanged
HostSetsModSource(id, newMode) ==
    Commit(IF World.src[id] = newMode THEN World
           ELSE NotifySource([World EXCEPT !.src[id] = newMode],
                             ProxiesFor(World, id), newMode),
           [op |-> "setModSource", source |-> Env0, target |-> NullTarget, prev |-> <<>>])
    /\ UNCHANGED <<everPushed, lastPushed, clearedSince>>

\* the host (or the editor) sets the _MOD_INDEX of a base parameter
HostSetsModIndex(id, newIndex) ==
    Commit(IF World.idx[id] = newIndex THEN World
           ELSE NotifyIndex([World EXCEPT !.idx[id] = newIndex],
                            ProxiesFor(World, id), newIndex),
           [op |-> "setModIndex", source |-> Env0, target |-> NullTarget, prev |-> <<>>])
    /\ UNCHANGED <<everPushed, lastPushed, clearedSince>>

StartupNext ==
    \/ \E id \in AutomatedParameters, newMode \in {"None", "Manual", "Envelope", "LFO"} :
          HostSetsModSource(id, newMode)
    \/ \E id \in AutomatedParameters, newIndex \in {0, 1} : HostSetsModIndex(id, newIndex)

-----------------------------------------------------------------------------
(* The multi-voice envelope.  juce::ADSR is the library class the          *)
(* EnvelopeADSR extends; its operations are modelled as the library        *)
(* defines them.  Times are carried in milliseconds and one sample lasts   *)
(* one millisecond, so a rate is a distance in hundredths divided by a     *)
(* time.  Levels move on a grid of 0.25: a rate is rounded up to the grid, *)
(* so that, as with floats, a rate is positive exactly when its distance   *)
(* is.                                                                     *)

\* size of the voice pool; the source's pool has 16 slots (Envelope.h 236)
maxPolyphony == 2

MIN_ADSR_TIME_MS == 1

Slots == 1..maxPolyphony

\* one note more than the pool has slots
Notes == 60..(60 + maxPolyphony)

EnvelopeModes == {"Normal", "AutoRelease"}

\* the APVTS values of the four ADSR knobs: the time knobs as steps above the
\* minimum time, the sustain knob in hundredths
EnvelopeSettings ==
    {[attack |-> 0, decay |-> 0, sustain |-> 100, release |-> 0],
     [attack |-> 1, decay |-> 0, sustain |-> 50, release |-> 1],
     [attack |-> 0, decay |-> 1, sustain |-> 0, release |-> 0]}

\* a / b on the level grid, rounded up
CeilDiv(a, b) == (((a + b - 1) \div b + 24) \div 25) * 25

\* FormattingUtils::normalizedToValue for a Time knob: a monotone curve that
\* starts at the minimum time, which is positive
normalizedToValue(norm, minValue) == minValue + norm

ADSR_reset(v) == [v EXCEPT !.envelopeVal = 0, !.state = "idle"]

ADSR_goToNextState(v) ==
    IF v.state = "attack"
    THEN [v EXCEPT !.state = IF v.decayRate > 0 THEN "decay" ELSE "sustain"]
    ELSE IF v.state = "decay" THEN [v EXCEPT !.state = "sustain"]
    ELSE IF v.state = "release" THEN ADSR_reset(v)
    ELSE v

getRate(distance, timeInMs) ==
    IF timeInMs > 0 THEN CeilDiv(distance, timeInMs) ELSE -1

ADSR_recalculateRates(v) ==
    LET p == v.parameters
        v1 == [v EXCEPT !.attackRate = getRate(100, p.attack),
                        !.decayRate = getRate(100 - p.sustain, p.decay),
                        !.releaseRate = getRate(p.sustain, p.release)]
    IN  IF \/ v1.state = "attack" /\ v1.attackRate <= 0
           \/ v1.state = "decay" /\ (v1.decayRate <= 0 \/ v1.envelopeVal <= p.sustain)
           \/ v1.state = "release" /\ v1.releaseRate <= 0
        THEN ADSR_goToNextState(v1)
        ELSE v1

ADSR_setParameters(v, p) == ADSR_recalculateRates([v EXCEPT !.parameters = p])

ADSR_noteOn(v) ==
    IF v.attackRate > 0 THEN [v EXCEPT !.state = "attack"]
    ELSE IF v.decayRate > 0 THEN [v EXCEPT !.envelopeVal = 100, !.state = "decay"]
    ELSE [v EXCEPT !.envelopeVal = v.parameters.sustain, !.state = "sustain"]

ADSR_noteOff(v) ==
    IF v.state = "idle" THEN v
    ELSE IF v.parameters.release > 0
         THEN [v EXCEPT !.releaseRate = CeilDiv(v.envelopeVal, v.parameters.release),
                        !.state = "release"]
         ELSE ADSR_reset(v)

ADSR_isActive(v) == v.state # "idle"

\* juce::ADSR::getNextSample: the voice after the call
ADSR_getNextSample(v) ==
    IF v.state = "idle" THEN v
    ELSE IF v.state = "attack"
         THEN LET x == v.envelopeVal + v.attackRate
              IN  IF x >= 100 THEN ADSR_goToNextState([v EXCEPT !.envelopeVal = 100])
                  ELSE [v EXCEPT !.envelopeVal = x]
    ELSE IF v.state = "decay"
         THEN LET x == v.envelopeVal - v.decayRate
              IN  IF x <= v.parameters.sustain
                  THEN ADSR_goToNextState([v EXCEPT !.envelopeVal = v.parameters.sustain])
                  ELSE [v EXCEPT !.envelopeVal = x]
    ELSE IF v.state = "sustain"
         THEN [v EXCEPT !.envelopeVal = v.parameters.sustain]
    ELSE LET x == v.envelopeVal - v.releaseRate
         IN  IF x <= 0 THEN ADSR_goToNextState([v EXCEPT !.envelopeVal = x])
             ELSE [v EXCEPT !.envelopeVal = x]

\* juce::ADSR::getNextSample: the value the call returns
ADSR_nextValue(v) == IF v.state = "idle" THEN 0 ELSE ADSR_getNextSample(v).envelopeVal

EnvelopeADSR_noteOn(v) ==
    LET v1 == [ADSR_noteOn(v) EXCEPT !.attackEnded = FALSE, !.releaseTriggered = FALSE]
        p == v1.parameters
        \* p.attack <= 0.0001f and p.release <= 0.0001f, in milliseconds
        isInstantStart == p.attack * 10 <= 1
        isInstantEnd == p.release * 10 <= 1
        v2 == IF isInstantStart THEN [v1 EXCEPT !.attackEnded = TRUE] ELSE v1
    IN  IF v.mode # "AutoRelease" THEN v1
        ELSE IF isInstantStart /\ isInstantEnd
             THEN [ADSR_noteOff(ADSR_setParameters(v2, [p EXCEPT !.release = 50]))
                      EXCEPT !.releaseTriggered = TRUE]
             ELSE v2

EnvelopeADSR_getNextSample_NoAutoRelease(v) ==
    LET value == ADSR_nextValue(v)
        v1 == ADSR_getNextSample(v)
        v2 == IF v.mode = "AutoRelease" /\ ~v.releaseTriggered /\ ~v.attackEnded /\ value >= 99
              THEN [v1 EXCEPT !.attackEnded = TRUE]
              ELSE v1
    IN  v2

EnvelopeADSR_getNextSample(v) ==
    LET value == ADSR_nextValue(v)
        v1 == ADSR_getNextSample(v)
        v2 == IF v.mode = "AutoRelease" /\ ~v.releaseTriggered
              THEN IF ~v.attackEnded
                   THEN IF value >= 99 THEN [v1 EXCEPT !.attackEnded = TRUE] ELSE v1
                   ELSE IF value <= v1.parameters.sustain
                        THEN [ADSR_noteOff(v1) EXCEPT !.releaseTriggered = TRUE]
                        ELSE v1
              ELSE v1
    IN  v2

\* the envelope as one value: its pool, its mode and its normalised knob values
EnvelopeObject ==
    [voiceEnvelopes |-> voiceEnvelopes, mode |-> envelopeMode, norms |-> envelopeNorms]

mapToADSRParams(n) ==
    [attack |-> normalizedToValue(n.attack, MIN_ADSR_TIME_MS),
     decay |-> normalizedToValue(n.decay, MIN_ADSR_TIME_MS),
     sustain |-> jlimit(0, 100, n.sustain),
     release |-> normalizedToValue(n.release, MIN_ADSR_TIME_MS)]

Envelope_setParameters(e, n) ==
    [e EXCEPT !.norms = n,
              !.voiceEnvelopes = [i \in Slots |->
                   ADSR_setParameters(e.voiceEnvelopes[i], mapToADSRParams(n))]]

Envelope_setMode(e, m) ==
    [e EXCEPT !.mode = m,
              !.voiceEnvelopes = [i \in Slots |-> [e.voiceEnvelopes[i] EXCEPT !.mode = m]]]

Envelope_updateFromParameters(e, m, n) ==
    Envelope_setParameters(Envelope_setMode(e, m), n)

\* the loop of Envelope::noteOn from slot i on
RECURSIVE NoteOnLoop(_, _, _)
NoteOnLoop(e, midiNote, i) ==
    IF i > maxPolyphony THEN e
    ELSE LET voice == e.voiceEnvelopes[i]
             freed == IF voice.active /\ voice.midiNote = midiNote
                      THEN [ADSR_reset(voice) EXCEPT !.active = FALSE, !.midiNote = -1]
                      ELSE voice
         IN  IF ~freed.active
             THEN [e EXCEPT !.voiceEnvelopes[i] =
                     EnvelopeADSR_noteOn(
                        ADSR_setParameters([freed EXCEPT !.midiNote = midiNote,
                                                         !.active = TRUE],
                                           mapToADSRParams(e.norms)))]
             ELSE NoteOnLoop(e, midiNote, i + 1)

Envelope_noteOn_StealsWhenFull(e, midiNote) ==
    IF \A i \in Slots : e.voiceEnvelopes[i].active /\ e.voiceEnvelopes[i].midiNote # midiNote
    THEN [e EXCEPT !.voiceEnvelopes[1] =
            EnvelopeADSR_noteOn([ADSR_reset(e.voiceEnvelopes[1]) EXCEPT !.midiNote = midiNote])]
    ELSE NoteOnLoop(e, midiNote, 1)

Envelope_noteOn(e, midiNote) == NoteOnLoop(e, midiNote, 1)

Envelope_noteOff(e, midiNote) ==
    [e EXCEPT !.voiceEnvelopes = [i \in Slots |->
        LET voice == e.voiceEnvelopes[i]
        IN  IF voice.active /\ voice.midiNote = midiNote
            THEN ADSR_noteOff(ADSR_setParameters(voice, mapToADSRParams(e.norms)))
            ELSE voice]]

Envelope_isNoteActive(e, midiNote) ==
    \E i \in Slots : e.voiceEnvelopes[i].active /\ e.voiceEnvelopes[i].midiNote = midiNote

Envelope_isActive(e) == \E i \in Slots : e.voiceEnvelopes[i].active

\* variant: a finished voice is marked inactive but keeps its note number
PullVoice_KeepsNote(voice) ==
    LET v1 == EnvelopeADSR_getNextSample(voice)
    IN  IF ~ADSR_isActive(v1) THEN [v1 EXCEPT !.active = FALSE] ELSE v1

\* one voice after its EnvelopeADSR produced a sample: freed when the ADSR is idle
PullVoice(voice) ==
    LET v1 == EnvelopeADSR_getNextSample(voice)
    IN  IF ~ADSR_isActive(v1) THEN [v1 EXCEPT !.active = FALSE, !.midiNote = -1] ELSE v1

\* Envelope::getNextSampleForNote: the envelope after the call
Envelope_getNextSampleForNote(e, midiNote) ==
    [e EXCEPT !.voiceEnvelopes = [i \in Slots |->
        LET voice == e.voiceEnvelopes[i]
        IN  IF voice.active /\ voice.midiNote = midiNote THEN PullVoice(voice) ELSE voice]]

\* Envelope::getNextSampleForNote: the mixed sample the call returns
RECURSIVE MixedSample(_, _, _)
MixedSample(e, midiNote, i) ==
    IF i > maxPolyphony THEN 0
    ELSE LET voice == e.voiceEnvelopes[i]
             sample == ADSR_nextValue(voice)
         IN  (IF voice.active /\ voice.midiNote = midiNote
              THEN (IF sample < 0 THEN 0 ELSE sample)
              ELSE 0) + MixedSample(e, midiNote, i + 1)

\* variant: tick advances the voices but never frees a slot
Envelope_tick_NeverFrees(e) ==
    [e EXCEPT !.voiceEnvelopes = [i \in Slots |->
        LET voice == e.voiceEnvelopes[i]
        IN  IF voice.active THEN EnvelopeADSR_getNextSample(voice) ELSE voice]]

Envelope_tick(e) ==
    [e EXCEPT !.voiceEnvelopes = [i \in Slots |->
        LET voice == e.voiceEnvelopes[i]
        IN  IF voice.active THEN PullVoice(voice) ELSE voice]]

\* a VoiceEnvelope as constructed: juce::ADSR's default parameters (0.1 s, 0.1 s,
\* 1.0, 0.1 s), idle at level 0
DefaultVoice ==
    ADSR_recalculateRates(
        [midiNote |-> -1, active |-> FALSE, mode |-> "Normal", state |-> "idle",
         envelopeVal |-> 0, attackRate |-> 0, decayRate |-> 0, releaseRate |-> 0,
         parameters |-> [attack |-> 100, decay |-> 100, sustain |-> 100, release |-> 100],
         attackEnded |-> FALSE, releaseTriggered |-> FALSE])

\* the field defaults of Envelope: attackNorm 0, decayNorm 0, sustainNorm 1, releaseNorm 0
DefaultNorms == [attack |-> 0, decay |-> 0, sustain |-> 100, release |-> 0]

-----------------------------------------------------------------------------
(* The envelope specification: any sequence of calls on one Envelope       *)

\* the slot the loop of Envelope::noteOn claims for the note, 0 when it claims none
\* and the note-on is dropped
ClaimedSlot(e, midiNote) ==
    LET cand == {i \in Slots : \/ ~e.voiceEnvelopes[i].active
                               \/ e.voiceEnvelopes[i].midiNote = midiNote}
    IN  IF cand = {} THEN 0 ELSE CHOOSE i \in cand : \A j \in cand : i <= j

\* the slots of ps whose EnvelopeADSR returns 0.99 or more from its next sample
Peaking(ps) == {i \in ps : ADSR_nextValue(voiceEnvelopes[i]) >= 99}

CommitEnvelope(e, dropped) ==
    /\ voiceEnvelopes' = e.voiceEnvelopes
    /\ envelopeMode' = e.mode
    /\ envelopeNorms' = e.norms
    /\ noteOnDropped' = dropped
    /\ UNCHANGED <<routerVars, procVars, lfoVars, dspVars>>

EnvInit ==
    LET e == Envelope_setParameters(
                [voiceEnvelopes |-> [i \in Slots |-> DefaultVoice],
                 mode |-> "Normal", norms |-> DefaultNorms], DefaultNorms)
    IN  /\ voiceEnvelopes = e.voiceEnvelopes
        /\ envelopeMode = e.mode
        /\ envelopeNorms = e.norms
        /\ autoSince = {}
        /\ peaked = {}
        /\ noteOnDropped = FALSE

EnvNoteOn(midiNote) ==
    LET slot == ClaimedSlot(EnvelopeObject, midiNote)
    IN  /\ CommitEnvelope(Envelope_noteOn(EnvelopeObject, midiNote), slot = 0)
        /\ autoSince' = IF envelopeMode = "AutoRelease"
                        THEN autoSince \cup ({slot} \cap Slots)
                        ELSE autoSince \ {slot}
        /\ peaked' = peaked \ {slot}

EnvNoteOff(midiNote) ==
    /\ CommitEnvelope(Envelope_noteOff(EnvelopeObject, midiNote), FALSE)
    /\ UNCHANGED <<autoSince, peaked>>

EnvGetNextSampleForNote(midiNote) ==
    LET ps == {i \in Slots : voiceEnvelopes[i].active /\ voiceEnvelopes[i].midiNote = midiNote}
    IN  /\ CommitEnvelope(Envelope_getNextSampleForNote(EnvelopeObject, midiNote), FALSE)
        /\ peaked' = peaked \cup Peaking(ps \cap autoSince)
        /\ UNCHANGED autoSince

EnvTick ==
    LET ps == {i \in Slots : voiceEnvelopes[i].active}
    IN  /\ CommitEnvelope(Envelope_tick(EnvelopeObject), FALSE)
        /\ peaked' = peaked \cup Peaking(ps \cap autoSince)
        /\ UNCHANGED autoSince

EnvUpdateFromParameters(m, n) ==
    /\ CommitEnvelope(Envelope_updateFromParameters(EnvelopeObject, m, n), FALSE)
    /\ autoSince' = IF m = "AutoRelease" THEN autoSince ELSE {}
    /\ peaked' = IF m = "AutoRelease" THEN peaked ELSE {}

EnvNext ==
    \/ \E n \in Notes : EnvNoteOn(n)
    \/ \E n \in Notes : EnvNoteOff(n)
    \/ \E n \in Notes : EnvGetNextSampleForNote(n)
    \/ EnvTick
    \/ \E m \in EnvelopeModes, n \in EnvelopeSettings : EnvUpdateFromParameters(m, n)

-----------------------------------------------------------------------------
(* One oscillator, linked to the envelope, and the block processor that    *)
(* feeds it.  The oscillator plays one unison voice at octave 0, is not    *)
(* bypassed and has no filter; every note advances a quarter turn of phase *)
(* per sample.                                                             *)

\* samples in a block (buffer.getNumSamples())
BlockSize == 3

\* MIDI events the host delivers in one block
MaxMidiEvents == 2

\* the keys played in the processor's session
MidiNoteNumbers == {60, 61}

MidiMessages == [kind : {"noteOn", "noteOff"}, note : MidiNoteNumbers]

\* Oscillator::generateWaveSample for Waveform::Square, where the phase counts
\* quarter turns, and the advance of the phase with its wrap at a full turn
generateWaveSample(phase) == IF phase < 2 THEN 100 ELSE -100

advancePhase(phase) == (phase + 1) % 4

calculateMidiNoteWithOctaveOffset(midiNoteNumber) ==
    jlimit(0, 127, midiNoteNumber + octave * 12)

\* the processor's engine as one value
Engine ==
    [env |-> EnvelopeObject, notes |-> notes, pLastNote |-> pLastNote,
     currentSample |-> currentSample, rendered |-> rendered, eventLog |-> eventLog]

Oscillator_noteOn(p, message) ==
    LET midiNote == calculateMidiNoteWithOctaveOffset(message.note)
        noteData == [velocity |-> 100,
                     phase |-> IF p.pLastNote \in DOMAIN p.notes
                               THEN p.notes[p.pLastNote].phase ELSE 0,
                     isReleasing |-> FALSE, lastSample |-> 0, pendingNoteOff |-> FALSE]
    IN  [p EXCEPT !.notes = MapPut(p.notes, midiNote, noteData), !.pLastNote = midiNote]

Oscillator_noteOff(p, message) ==
    LET midiNote == calculateMidiNoteWithOctaveOffset(message.note)
    IN  IF midiNote \in DOMAIN p.notes
        THEN [p EXCEPT !.notes[midiNote].pendingNoteOff = TRUE,
                       !.pLastNote = IF p.pLastNote = midiNote THEN -1 ELSE p.pLastNote]
        ELSE p

\* the body of the loop of Oscillator::getNextSample for one note
NextSampleOfNote(p, midiNote) ==
    LET note == p.notes[midiNote]
        env == MixedSample(p.env, midiNote, 1)
        e1 == Envelope_getNextSampleForNote(p.env, midiNote)
        sumSample == (generateWaveSample(note.phase) * note.velocity * env) \div 10000
        crossing == note.pendingNoteOff /\ note.lastSample * sumSample < 0
    IN  [p EXCEPT !.env = IF crossing THEN Envelope_noteOff(e1, midiNote) ELSE e1,
                  !.notes[midiNote] =
                      [note EXCEPT !.phase = advancePhase(note.phase),
                                   !.pendingNoteOff = IF crossing THEN FALSE ELSE @,
                                   !.lastSample = sumSample]]

RECURSIVE NextSampleLoop(_, _)
NextSampleLoop(p, ns) ==
    IF ns = {} THEN p
    ELSE LET n == CHOOSE x \in ns : \A y \in ns : x <= y
         IN  NextSampleLoop(NextSampleOfNote(p, n), ns \ {n})

Oscillator_getNextSample(p) == NextSampleLoop(p, DOMAIN p.notes)

Oscillator_removeReleasedNotesIf(p) ==
    LET gone == {n \in DOMAIN p.notes :
                    p.notes[n].isReleasing /\ ~Envelope_isNoteActive(p.env, n)}
    IN  [p EXCEPT !.notes = [n \in (DOMAIN p.notes) \ gone |-> p.notes[n]]]

\* renderAudioSegment: the oscillator produces numSamples samples from startSample
\* on; each is recorded with the number of events applied before it
RECURSIVE renderAudioSegment(_, _, _)
renderAudioSegment(p, startSample, numSamples) ==
    IF numSamples <= 0 THEN p
    ELSE LET p1 == Oscillator_getNextSample(p)
         IN  renderAudioSegment(
                [p1 EXCEPT !.rendered = Append(@, [sample |-> startSample,
                                                   applied |-> Len(p.eventLog)])],
                startSample + 1, numSamples - 1)

\* the first half of the body of the loop of handleMidiAndRender: render up to the
\* event and move currentSample to it
renderUpToEvent(p, eventSample) ==
    LET p1 == IF eventSample > p.currentSample
              THEN renderAudioSegment(p, p.currentSample, eventSample - p.currentSample)
              ELSE p
    IN  [p1 EXCEPT !.currentSample = eventSample]

\* the second half: apply the event to the envelope and to the oscillator
applyMidiEvent(p, message) ==
    LET midiNote == calculateMidiNoteWithOctaveOffset(message.note)
        p1 == IF message.kind = "noteOn"
              THEN Oscillator_noteOn([p EXCEPT !.env = Envelope_noteOn(@, midiNote)], message)
              ELSE IF message.kind = "noteOff"
              THEN Oscillator_noteOff([p EXCEPT !.env = Envelope_noteOff(@, midiNote)], message)
              ELSE p
    IN  [p1 EXCEPT !.eventLog = Append(@, p.currentSample)]

handleMidiEvent_KeepsCurrentSample(p, eventSample, message) ==
    applyMidiEvent(
        [renderUpToEvent(p, eventSample) EXCEPT !.currentSample = p.currentSample], message)

handleMidiEvent(p, eventSample, message) ==
    applyMidiEvent(renderUpToEvent(p, eventSample), message)

renderRemaining_LeavesTail(p) == p

renderRemaining(p) ==
    IF p.currentSample < BlockSize
    THEN renderAudioSegment(p, p.currentSample, BlockSize - p.currentSample)
    ELSE p

-----------------------------------------------------------------------------
(* The processor specification: block after block, each with the MIDI      *)
(* events of a juce::MidiBuffer, which hands them out ordered by sample     *)
(* position.  The modulation pushes and the LFOs of the block are not part  *)
(* of it.                                                                  *)

CommitEngine(p, nextPc) ==
    /\ voiceEnvelopes' = p.env.voiceEnvelopes
    /\ envelopeMode' = p.env.mode
    /\ envelopeNorms' = p.env.norms
    /\ notes' = p.notes
    /\ pLastNote' = p.pLastNote
    /\ currentSample' = p.currentSample
    /\ rendered' = p.rendered
    /\ eventLog' = p.eventLog
    /\ pc' = nextPc
    /\ UNCHANGED <<routerVars, autoSince, peaked, noteOnDropped, lfoVars, dspVars>>

ProcInit ==
    /\ notes = EmptyMap
    /\ pLastNote = -1
    /\ currentSample = 0
    /\ rendered = <<>>
    /\ eventLog = <<>>
    /\ pc = "update"

\* processBlock up to the loop of handleMidiAndRender: the parameters are refreshed
\* from the APVTS and currentSample starts at 0.  The envelope's knobs are moved
\* before the first note only: later blocks read the values of the block before.
UpdateParameters(m, n) ==
    /\ pc = "update"
    /\ notes # EmptyMap => (m = envelopeMode /\ n = envelopeNorms)
    /\ CommitEngine([Engine EXCEPT !.env = Envelope_updateFromParameters(@, m, n),
                                   !.currentSample = 0,
                                   !.rendered = <<>>,
                                   !.eventLog = <<>>], "midi")

\* one iteration of the loop of handleMidiAndRender
HandleMidiEvent(eventSample, message) ==
    /\ pc = "midi"
    /\ Len(eventLog) < MaxMidiEvents
    /\ eventSample >= currentSample
    /\ CommitEngine(handleMidiEvent(Engine, eventSample, message), "midi")

\* the end of handleMidiAndRender
RenderRemaining ==
    /\ pc = "midi"
    /\ CommitEngine(renderRemaining(Engine), "tick")

TickEnvelopes ==
    /\ pc = "tick"
    /\ CommitEngine([Engine EXCEPT !.env = Envelope_tick(@)], "finalize")

FinalizeNotes ==
    /\ pc = "finalize"
    /\ CommitEngine(Oscillator_removeReleasedNotesIf(Engine), "update")

\* the settings of the Octave box (minOctaveOffset..maxOctaveOffset)
OctaveOffsets == -2..2

\* the keys played when the octave is moved: the lowest and the two highest
OctaveKeys == {0, 126, 127}

RECURSIVE NoteOffEach(_, _)
NoteOffEach(e, ns) ==
    IF ns = {} THEN e
    ELSE LET n == CHOOSE x \in ns : TRUE
         IN  NoteOffEach(Envelope_noteOff(e, n), ns \ {n})

\* the Octave branch of Oscillator::updateFromParameters: on a change the envelope
\* gets a note-off for every note of the map and the map is cleared
Oscillator_updateOctave(p, newOctave) ==
    IF newOctave # octave
    THEN [p EXCEPT !.env = NoteOffEach(@, DOMAIN p.notes),
                   !.notes = EmptyMap,
                   !.pLastNote = -1]
    ELSE p

CommitOctave(p, nextPc, newOctave, held) ==
    /\ voiceEnvelopes' = p.env.voiceEnvelopes
    /\ envelopeMode' = p.env.mode
    /\ envelopeNorms' = p.env.norms
    /\ notes' = p.notes
    /\ pLastNote' = p.pLastNote
    /\ currentSample' = p.currentSample
    /\ rendered' = p.rendered
    /\ eventLog' = p.eventLog
    /\ pc' = nextPc
    /\ octave' = newOctave
    /\ heldKeys' = held
    /\ UNCHANGED <<routerVars, autoSince, peaked, noteOnDropped, lfoVars, lfoBufferVars,
                   filterVars, unisonVars>>

\* updateParameters with the Octave box at newOctave
OctUpdateParameters(newOctave) ==
    /\ pc = "update"
    /\ CommitOctave(Oscillator_updateOctave(
                       [Engine EXCEPT !.env = Envelope_updateFromParameters(
                                                  @, envelopeMode, envelopeNorms),
                                      !.currentSample = 0,
                                      !.rendered = <<>>,
                                      !.eventLog = <<>>], newOctave),
                    "midi", newOctave, heldKeys)

\* one iteration of the loop of handleMidiAndRender for a note-on of a key
OctNoteOn(eventSample, key) ==
    /\ pc = "midi"
    /\ Len(eventLog) < MaxMidiEvents
    /\ eventSample >= currentSample
    /\ key \notin DOMAIN heldKeys
    /\ CommitOctave(handleMidiEvent(Engine, eventSample, [kind |-> "noteOn", note |-> key]),
                    "midi", octave,
                    MapPut(heldKeys, key, calculateMidiNoteWithOctaveOffset(key)))

\* and for a note-off
OctNoteOff(eventSample, key) ==
    /\ pc = "midi"
    /\ Len(eventLog) < MaxMidiEvents
    /\ eventSample >= currentSample
    /\ key \in DOMAIN heldKeys
    /\ CommitOctave(handleMidiEvent(Engine, eventSample, [kind |-> "noteOff", note |-> key]),
                    "midi", octave, MapErase(heldKeys, key))

NextProcessor ==
    \/ \E m \in EnvelopeModes, n \in EnvelopeSettings : UpdateParameters(m, n)
    \/ \E k \in 0..(BlockSize - 1), msg \in MidiMessages : HandleMidiEvent(k, msg)
    \/ RenderRemaining
    \/ TickEnvelopes
    \/ FinalizeNotes

-----------------------------------------------------------------------------
(* The LFOs and the modulation pushes of a block.  One LFO is kept; the    *)
(* value its wave holds for a block is LfoWaveValue.                       *)

LfoIndices == {0}

\* the value of modulationBuffer the block's getNextValue reads
LfoWaveValue == 75

\* an LFO as constructed (LFO.h 221-224)
DefaultLfo == [isTriggered |-> FALSE, modulationActive |-> TRUE, bypassed |-> FALSE]

LFO_noteOn(l) == [l EXCEPT !.isTriggered = TRUE]

LFO_setModulationActive(l, shouldBeActive) == [l EXCEPT !.modulationActive = shouldBeActive]

\* LFO::updateFromAPVTS, as far as the bypass toggle goes
LFO_updateFromAPVTS(l, bypassParam) == [l EXCEPT !.bypassed = bypassParam]

LFO_isBypassed(l) == l.bypassed

LFO_isActive(l) == l.isTriggered

LFO_isModulationActive(l) == l.modulationActive

LFO_getNextValue(l) == IF ~LFO_isModulationActive(l) THEN 0 ELSE LfoWaveValue

handleNoteOnLfos(ls) ==
    [i \in DOMAIN ls |-> LFO_setModulationActive(LFO_noteOn(ls[i]), TRUE)]

\* Envelope::getModulationValue: the mean level of the active voices
Envelope_getModulationValue(e) ==
    LET act == {i \in Slots : e.voiceEnvelopes[i].active}
        level(i) == jlimit(0, 100, e.voiceEnvelopes[i].envelopeVal)
        sum[S \in SUBSET act] ==
            IF S = {} THEN 0
            ELSE LET i == CHOOSE x \in S : TRUE IN level(i) + sum[S \ {i}]
    IN  IF act = {} THEN 0 ELSE sum[act] \div Cardinality(act)

pushEnvelopeModulation(w, e) ==
    ModulationRouter_pushModulationValue(w, Env0, Envelope_getModulationValue(e))

\* renderAllLFOs, for the one LFO
renderAllLFOs(w, ls, bypassParam) ==
    LET l == LFO_updateFromAPVTS(ls[0], bypassParam)
        ls1 == [ls EXCEPT ![0] = l]
    IN  IF LFO_isBypassed(l)
        THEN [world |-> ModulationRouter_disconnectAllTargetsUsing(w, LFO0), lfos |-> ls1]
        ELSE IF ~LFO_isActive(l) THEN [world |-> w, lfos |-> ls1]
        ELSE [world |-> ModulationRouter_pushModulationValue(w, LFO0, LFO_getNextValue(l)),
              lfos |-> ls1]

\* the second half of finalizeNotes
disableIdleLfos(ls, e) ==
    IF ~Envelope_isActive(e)
    THEN [i \in DOMAIN ls |-> LFO_setModulationActive(ls[i], FALSE)]
    ELSE ls

LfoInit == lfos = [i \in LfoIndices |-> DefaultLfo]

-----------------------------------------------------------------------------
(* One filter.  Its parameters are the resonance, the type and the bypass  *)
(* toggle, which Filter::updateFromParameters loads as they are.           *)

FilterSettings == [resonance : {0, 50}, type : {"LowPass", "HighPass"}, bypass : BOOLEAN]

\* Filter::Parameters::Default, and the layout's defaults in the APVTS
DefaultFilterSettings == [resonance |-> 0, type |-> "LowPass", bypass |-> FALSE]

\* what Filter::updateFilter hands to the ladder filter
LadderSettings(params) == [mode |-> params.type, resonance |-> params.resonance]

\* the filter as one value
FilterObject ==
    [currentParams |-> currentParams, needsUpdate |-> needsUpdate,
     ladderFilter |-> ladderFilter, updated |-> FALSE, filtered |-> FALSE]

Filter_updateFilter(f) ==
    [f EXCEPT !.ladderFilter = LadderSettings(f.currentParams), !.updated = TRUE]

\* Filter::updateFromParameters
Filter_updateFromParameters(f, apvts) ==
    [f EXCEPT !.currentParams = apvts, !.needsUpdate = TRUE]

\* Filter::updateParametersIfNeeded
Filter_updateParametersIfNeeded(f) ==
    IF f.needsUpdate
    THEN [Filter_updateFilter(f) EXCEPT !.needsUpdate = FALSE]
    ELSE f

\* Filter::process
Filter_process(f) ==
    IF f.currentParams.bypass THEN f
    ELSE LET f1 == IF f.needsUpdate
                   THEN [Filter_updateFilter(f) EXCEPT !.needsUpdate = FALSE]
                   ELSE f
         IN  [f1 EXCEPT !.filtered = TRUE]

CommitFilter(f, op, nextPc) ==
    /\ currentParams' = f.currentParams
    /\ needsUpdate' = f.needsUpdate
    /\ ladderFilter' = f.ladderFilter
    /\ filterLast' = [op |-> op, updated |-> f.updated, filtered |-> f.filtered]
    /\ paramsAtUpdate' = IF f.updated THEN <<f.currentParams>> ELSE paramsAtUpdate
    /\ filterPc' = nextPc
    /\ UNCHANGED <<routerVars, envVars, procVars, lfoVars, keyboardVars, lfoBufferVars,
                   unisonVars, filterApvts>>

\* a filter as constructed: currentParams at the defaults, the flag set
FilterInit ==
    /\ filterApvts = DefaultFilterSettings
    /\ currentParams = DefaultFilterSettings
    /\ needsUpdate = TRUE
    /\ ladderFilter = LadderSettings(DefaultFilterSettings)
    /\ filterPc = "start"
    /\ filterLast = [op |-> "none", updated |-> FALSE, filtered |-> FALSE]
    /\ paramsAtUpdate = <<>>

\* the host or the editor moves a control of the filter
SetFilterParameter(settings) ==
    /\ settings # filterApvts
    /\ filterApvts' = settings
    /\ UNCHANGED <<routerVars, envVars, procVars, lfoVars, keyboardVars, lfoBufferVars,
                   unisonVars, currentParams, needsUpdate, ladderFilter, filterPc,
                   paramsAtUpdate>>
    /\ filterLast' = [op |-> "set", updated |-> FALSE, filtered |-> FALSE]

\* updateParameters: filters[i]->updateFromParameters(apvts, i)
FilterUpdateFromParameters ==
    /\ filterPc \in {"start", "idle"}
    /\ CommitFilter(Filter_updateFromParameters(FilterObject, filterApvts),
                    "updateFromParameters", "loaded")

\* updateParameters: filters[i]->updateParametersIfNeeded()
FilterUpdateParametersIfNeeded ==
    /\ filterPc = "loaded"
    /\ CommitFilter(Filter_updateParametersIfNeeded(FilterObject),
                    "updateParametersIfNeeded", "idle")

\* Oscillator::processBlock: linkedFilter->process(context)
FilterProcess ==
    /\ filterPc = "idle"
    /\ CommitFilter(Filter_process(FilterObject), "process", "idle")

NextFilter ==
    \/ \E settings \in FilterSettings : SetFilterParameter(settings)
    \/ FilterUpdateFromParameters
    \/ FilterUpdateParametersIfNeeded
    \/ FilterProcess

-----------------------------------------------------------------------------
(* The unison voices of an oscillator: every note has one phase for each   *)
(* voice, and the detune and the pan gains of the voices are cached in     *)
(* three arrays.  A phase counts half turns.                               *)

maxVoices == 8

\* the values the session gives the Voices knob
VoiceCounts == {1, 2, 3, maxVoices}

\* the keys played
UnisonKeys == {60, 61}

\* std::vector::resize(n, 0.0)
Resized(seq, n) == [i \in 1..n |-> IF i <= Len(seq) THEN seq[i] ELSE 0]

\* the oscillator's unison state as one value
UnisonObject ==
    [voices |-> latestVoices, notes |-> notePhases, pLastNote |-> lastNote,
     cached |-> cachedSizes,
     did |-> [op |-> "none", copied |-> FALSE, rendered |-> {}, outOfBounds |-> FALSE]]

\* variant: the voice count changes and the held notes keep their phases
Oscillator_updateVoices_KeepsPhases(o, param) ==
    LET newVoiceCount == jlimit(1, maxVoices, param)
    IN  IF newVoiceCount # o.voices
        THEN [o EXCEPT !.voices = newVoiceCount,
                       !.cached = [detune |-> newVoiceCount, left |-> newVoiceCount,
                                   right |-> newVoiceCount],
                       !.did.op = "updateFromParameters"]
        ELSE [o EXCEPT !.did.op = "updateFromParameters"]

\* the Voices branch of Oscillator::updateFromParameters
Oscillator_updateVoices(o, param) ==
    LET newVoiceCount == jlimit(1, maxVoices, param)
    IN  IF newVoiceCount # o.voices
        THEN [o EXCEPT !.notes = [n \in DOMAIN o.notes |-> Resized(o.notes[n], newVoiceCount)],
                       !.voices = newVoiceCount,
                       !.cached = [detune |-> newVoiceCount, left |-> newVoiceCount,
                                   right |-> newVoiceCount],
                       !.did.op = "updateFromParameters"]
        ELSE [o EXCEPT !.did.op = "updateFromParameters"]

\* Oscillator::noteOn, as far as the phases go
Oscillator_noteOn_phases(o, midiNote) ==
    LET copies == o.pLastNote \in DOMAIN o.notes /\ Len(o.notes[o.pLastNote]) = o.voices
        phases == IF copies THEN o.notes[o.pLastNote] ELSE Resized(<<>>, o.voices)
    IN  [o EXCEPT !.notes = MapPut(o.notes, midiNote, phases),
                  !.pLastNote = midiNote,
                  !.did.op = "noteOn",
                  !.did.copied = copies]

\* Oscillator::noteOff, as far as pLastNote goes
Oscillator_noteOff_last(o, midiNote) ==
    [o EXCEPT !.pLastNote = IF midiNote \in DOMAIN o.notes /\ o.pLastNote = midiNote
                            THEN -1 ELSE o.pLastNote,
              !.did.op = "noteOff"]

\* Oscillator::getNextSample for the notes ns still to visit: a note with fewer
\* phases than voices is skipped, and for every other note the voices 0..numVoices-1
\* index its phases and the three cached arrays
RECURSIVE Oscillator_getNextSample_voices(_, _)
Oscillator_getNextSample_voices(o, ns) ==
    IF ns = {} THEN o
    ELSE LET n == CHOOSE x \in ns : \A y \in ns : x <= y
             numVoices == o.voices
             phases == o.notes[n]
             o1 == IF Len(phases) < numVoices THEN o
                   ELSE [o EXCEPT !.notes[n] =
                            [i \in 1..Len(phases) |->
                                IF i <= numVoices THEN (phases[i] + 1) % 2 ELSE phases[i]],
                                  !.did.rendered = @ \cup {n},
                                  !.did.outOfBounds =
                                      \/ @
                                      \/ numVoices > Len(phases)
                                      \/ numVoices > o.cached.detune
                                      \/ numVoices > o.cached.left
                                      \/ numVoices > o.cached.right]
         IN  Oscillator_getNextSample_voices(o1, ns \ {n})

\* Oscillator::processBlock for a segment of one sample: the cached arrays are
\* resized to the voice count and getNextSample runs
Oscillator_processBlock_voices(o) ==
    LET o1 == [o EXCEPT !.cached = [detune |-> o.voices, left |-> o.voices,
                                    right |-> o.voices],
                        !.did.op = "processBlock"]
    IN  Oscillator_getNextSample_voices(o1, DOMAIN o1.notes)

CommitUnison(o) ==
    /\ latestVoices' = o.voices
    /\ notePhases' = o.notes
    /\ lastNote' = o.pLastNote
    /\ cachedSizes' = o.cached
    /\ unisonOp' = o.did
    /\ UNCHANGED <<routerVars, envVars, procVars, lfoVars, keyboardVars, lfoBufferVars,
                   filterVars, voicesParam>>

\* an oscillator as constructed: one voice, no note, empty cached arrays
UnisonInit ==
    /\ voicesParam = 1
    /\ latestVoices = 1
    /\ notePhases = EmptyMap
    /\ lastNote = -1
    /\ cachedSizes = [detune |-> 0, left |-> 0, right |-> 0]
    /\ unisonOp = [op |-> "none", copied |-> FALSE, rendered |-> {}, outOfBounds |-> FALSE]

\* the host, the editor or a modulation source moves the Voices knob
SetVoicesParameter(v) ==
    /\ v # voicesParam
    /\ voicesParam' = v
    /\ unisonOp' = [op |-> "set", copied |-> FALSE, rendered |-> {}, outOfBounds |-> FALSE]
    /\ UNCHANGED <<routerVars, envVars, procVars, lfoVars, keyboardVars, lfoBufferVars,
                   filterVars, latestVoices, notePhases, lastNote, cachedSizes>>

\* updateParameters: oscillators[i]->updateFromParameters()
UnisonUpdateFromParameters ==
    /\ voicesParam \in 1..maxVoices
    /\ CommitUnison(Oscillator_updateVoices(UnisonObject, voicesParam))

UnisonNoteOn(key) ==
    /\ key \in UnisonKeys
    /\ CommitUnison(Oscillator_noteOn_phases(UnisonObject, key))

UnisonNoteOff(key) ==
    /\ key \in UnisonKeys
    /\ CommitUnison(Oscillator_noteOff_last(UnisonObject, key))

\* renderAudioSegment: osc->processBlock(buffer, startSample, numSamples)
UnisonProcessBlock ==
    /\ cachedSizes.detune <= maxVoices
    /\ CommitUnison(Oscillator_processBlock_voices(UnisonObject))

NextUnison ==
    \/ \E v \in VoiceCounts : SetVoicesParameter(v)
    \/ UnisonUpdateFromParameters
    \/ \E key \in UnisonKeys : UnisonNoteOn(key)
    \/ \E key \in UnisonKeys : UnisonNoteOff(key)
    \/ UnisonProcessBlock

-----------------------------------------------------------------------------
(* 32-bit floats.  The LFO's phase is a float that advance adds a float to *)
(* for every sample.  A float that is zero or positive and normal is kept  *)
(* as [m, e] with value m * 2^e and 2^23 <= m < 2^24 (m = 0 for zero); the *)
(* operations round to nearest, ties to even, as IEEE-754 prescribes.      *)

F32Zero == [m |-> 0, e |-> 0]

F32One == [m |-> 2^23, e |-> -23]

\* total + num/den rounded to an integer, ties to even
RoundHalfEven(total, num, den) ==
    total + (IF 2 * num > den THEN 1
             ELSE IF 2 * num = den THEN total % 2
             ELSE 0)

\* a rounded mantissa that reached 2^24 moves to the next exponent
F32Pack(m, e) == IF m = 2^24 THEN [m |-> 2^23, e |-> e + 1] ELSE [m |-> m, e |-> e]

F32Less(a, b) ==
    IF b.m = 0 THEN FALSE
    ELSE IF a.m = 0 THEN TRUE
    ELSE a.e < b.e \/ (a.e = b.e /\ a.m < b.m)

\* a + b
F32Add(a, b) ==
    IF a.m = 0 THEN b
    ELSE IF b.m = 0 THEN a
    ELSE LET big == IF F32Less(a, b) THEN b ELSE a
             small == IF F32Less(a, b) THEN a ELSE b
             s == big.e - small.e
         IN  IF s > 25 THEN big
             ELSE LET q == small.m \div 2^s
                      r == small.m % 2^s
                      total == big.m + q
                  IN  IF total < 2^24
                      THEN F32Pack(RoundHalfEven(total, r, 2^s), big.e)
                      ELSE F32Pack(RoundHalfEven(total \div 2, (total % 2) * 2^s + r,
                                                 2^(s + 1)), big.e + 1)

RECURSIVE F32Normalize(_, _)
F32Normalize(m, e) ==
    IF m = 0 THEN F32Zero
    ELSE IF m < 2^23 THEN F32Normalize(2 * m, e - 1)
    ELSE [m |-> m, e |-> e]

\* a - 1.0f for 1 <= a < 2, which is exact
F32SubOne(a) == F32Normalize(a.m - 2^23, a.e)

\* n / d for two floats that hold the positive integers n and d (n < 2^24 * d):
\* the quotient is extended bit by bit to 24 bits and rounded
RECURSIVE DivBits(_, _, _, _)
DivBits(q, r, d, e) ==
    IF q >= 2^23 THEN F32Pack(RoundHalfEven(q, r, d), e)
    ELSE DivBits(2 * q + (2 * r) \div d, (2 * r) % d, d, e - 1)

F32Div(n, d) == DivBits(n \div d, n % d, d, 0)

-----------------------------------------------------------------------------
(* The LFO's buffer: advance fills it, getNextValue reads it.  The LFO is  *)
(* of Type::Square in Free mode; shape is its duty cycle.  A block of      *)
(* equal consecutive values of the buffer is kept as one run.              *)

\* longest block of the short scenarios
MaxLfoBlockLen == 3

\* calls of advance in a session
MaxLfoBlocks == 2

\* reads past the end of the buffer in a block
MaxWrapReads == 2

\* Type=Square, Shape 0.5, 2 Hz at 48000 Hz in blocks of 24000 samples
SquareScenario ==
    [frequencyHz |-> 2, sampleRate |-> 48000, samplesPerBlock |-> 24000,
     shape |-> F32Div(1, 2)]

\* short blocks: 1 Hz at 3 or 4 samples per second, duty 1/4, 1/2 or 3/4
ShortScenarios ==
    [frequencyHz : {1}, sampleRate : {3, 4}, samplesPerBlock : 1..MaxLfoBlockLen,
     shape : {F32Div(1, 4), F32Div(1, 2), F32Div(3, 4)}]

LfoScenarios == {SquareScenario} \cup ShortScenarios

NothingReturned == [value |-> -1, readBuffer |-> FALSE]

\* LFO::getValueAtPhase for Type::Square
LFO_getValueAtPhase(phase, shape) == IF F32Less(phase, shape) THEN 100 ELSE 0

BufferSize(buffer) ==
    LET sum[k \in 0..Len(buffer)] == IF k = 0 THEN 0 ELSE sum[k - 1] + buffer[k].count
    IN  sum[Len(buffer)]

\* modulationBuffer[i]
RECURSIVE BufferAt(_, _)
BufferAt(buffer, i) ==
    IF i < Head(buffer).count THEN Head(buffer).value
    ELSE BufferAt(Tail(buffer), i - Head(buffer).count)

\* modulationBuffer[i] = value, for the i the loop of advance has reached
BufferAppend(buffer, value) ==
    IF buffer # <<>> /\ buffer[Len(buffer)].value = value
    THEN [buffer EXCEPT ![Len(buffer)].count = @ + 1]
    ELSE Append(buffer, [value |-> value, count |-> 1])

\* the LFO as one value
LfoObject ==
    [phase |-> lfoPhase, modulationBuffer |-> modulationBuffer,
     bufferIndex |-> bufferIndex, modulationActive |-> lfos[0].modulationActive,
     returned |-> lfoReturned]

\* LFO::advance up to its loop: needsRetrigger is false in Free mode
LFO_advance_begin(l) == [l EXCEPT !.modulationBuffer = <<>>, !.bufferIndex = 0]

\* one iteration of the loop of LFO::advance
LFO_advance_sample(l, params) ==
    LET phaseDelta == F32Div(params.frequencyHz, params.sampleRate)
        phase1 == F32Add(l.phase, phaseDelta)
    IN  [l EXCEPT !.modulationBuffer = BufferAppend(@, LFO_getValueAtPhase(l.phase,
                                                                          params.shape)),
                  !.phase = IF ~F32Less(phase1, F32One) THEN F32SubOne(phase1) ELSE phase1]

\* variant: the index stops at the end of the buffer
LFO_getNextValue_NoWrap(l) ==
    IF ~l.modulationActive
    THEN [l EXCEPT !.returned = [value |-> 0, readBuffer |-> FALSE]]
    ELSE IF l.modulationBuffer = <<>>
    THEN [l EXCEPT !.returned = [value |-> 50, readBuffer |-> FALSE]]
    ELSE [l EXCEPT !.returned = [value |-> BufferAt(l.modulationBuffer, l.bufferIndex),
                                 readBuffer |-> TRUE],
                   !.bufferIndex = IF l.bufferIndex + 1 < BufferSize(l.modulationBuffer)
                                   THEN l.bufferIndex + 1 ELSE l.bufferIndex]

\* LFO::getNextValue
LFO_getNextValue_read(l) ==
    IF ~l.modulationActive
    THEN [l EXCEPT !.returned = [value |-> 0, readBuffer |-> FALSE]]
    ELSE IF l.modulationBuffer = <<>>
    THEN [l EXCEPT !.returned = [value |-> 50, readBuffer |-> FALSE]]
    ELSE [l EXCEPT !.returned = [value |-> BufferAt(l.modulationBuffer, l.bufferIndex),
                                 readBuffer |-> TRUE],
                   !.bufferIndex = (l.bufferIndex + 1) % BufferSize(l.modulationBuffer)]

CommitLfoObject(l, nextIndex, blocks, reads) ==
    /\ lfoPhase' = l.phase
    /\ modulationBuffer' = l.modulationBuffer
    /\ bufferIndex' = l.bufferIndex
    /\ lfos' = [lfos EXCEPT ![0].modulationActive = l.modulationActive]
    /\ lfoReturned' = l.returned
    /\ advanceIndex' = nextIndex
    /\ lfoBlocks' = blocks
    /\ lfoReads' = reads
    /\ UNCHANGED <<routerVars, envVars, procVars, keyboardVars, filterVars, unisonVars,
                   lfoParams>>

\* the oscillator's parameters as constructed (the Octave box at its default
\* index 2) and a keyboard with no key down
KeyboardInit ==
    /\ octave = 0
    /\ heldKeys = EmptyMap

\* an LFO as constructed: phase 0, an empty buffer
LfoBufferInit(params) ==
    /\ lfoParams = params
    /\ lfoPhase = F32Zero
    /\ modulationBuffer = <<>>
    /\ bufferIndex = 0
    /\ advanceIndex = -1
    /\ lfoBlocks = 0
    /\ lfoReads = 0
    /\ lfoReturned = NothingReturned

DspInit == KeyboardInit /\ LfoBufferInit(SquareScenario) /\ FilterInit /\ UnisonInit

\* renderAllLFOs calls advance(blockSize, sampleRate)
AdvanceBegin ==
    /\ advanceIndex = -1
    /\ lfoBlocks < MaxLfoBlocks
    /\ CommitLfoObject([LFO_advance_begin(LfoObject) EXCEPT !.returned = NothingReturned],
                       0, lfoBlocks + 1, 0)

AdvanceSample ==
    /\ advanceIndex >= 0
    /\ advanceIndex < lfoParams.samplesPerBlock
    /\ CommitLfoObject(LFO_advance_sample(LfoObject, lfoParams),
                       advanceIndex + 1, lfoBlocks, lfoReads)

\* the loop of advance is left
AdvanceEnd ==
    /\ advanceIndex = lfoParams.samplesPerBlock
    /\ CommitLfoObject(LfoObject, -1, lfoBlocks, lfoReads)

GetNextValue ==
    /\ advanceIndex = -1
    /\ lfoBlocks > 0
    /\ lfoReads < lfoParams.samplesPerBlock + MaxWrapReads
    /\ LET l == LFO_getNextValue_read(LfoObject)
       IN  CommitLfoObject(l, -1, lfoBlocks,
                           IF l.returned.readBuffer THEN lfoReads + 1 ELSE lfoReads)

\* finalizeNotes and handleNoteOnLfos switch the gate
SetModulationActive(shouldBeActive) ==
    /\ advanceIndex = -1
    /\ lfos[0].modulationActive # shouldBeActive
    /\ CommitLfoObject([LfoObject EXCEPT !.modulationActive = shouldBeActive],
                       -1, lfoBlocks, lfoReads)

NextLfoBuffer ==
    \/ AdvanceBegin
    \/ AdvanceSample
    \/ AdvanceEnd
    \/ GetNextValue
    \/ \E b \in BOOLEAN : SetModulationActive(b)

-----------------------------------------------------------------------------
(* The block processor with its modulation: processBlock step by step, on  *)
(* a processor whose targets were connected to LFO 1 when it started.  One *)
(* key is played and the envelope's knobs stay where they are.             *)

CommitBlock(p, w, ls, nextPc) ==
    /\ voiceEnvelopes' = p.env.voiceEnvelopes
    /\ envelopeMode' = p.env.mode
    /\ envelopeNorms' = p.env.norms
    /\ notes' = p.notes
    /\ pLastNote' = p.pLastNote
    /\ currentSample' = p.currentSample
    /\ rendered' = p.rendered
    /\ eventLog' = p.eventLog
    /\ pc' = nextPc
    /\ sourceToTargets' = w.s2t
    /\ targetToSource' = w.t2s
    /\ lastModValues' = w.last
    /\ engine' = w.eng
    /\ paramValue' = w.par
    /\ modSource' = w.src
    /\ modIndex' = w.idx
    /\ sourceIndex' = w.cur
    /\ recv' = w.rcv
    /\ lfos' = ls
    /\ UNCHANGED <<everPushed, lastPushed, clearedSince, lastOp,
                   autoSince, peaked, noteOnDropped, dspVars>>

\* the targets whose _MOD_SOURCE is LFO and _MOD_INDEX 0 have been connected
LfoRouterInit ==
    \E connected \in SUBSET Targets :
        LET w == ConnectEach(FreshWorld, RegisteredKnobs \o <<"P1">>,
                             [t \in Targets |-> LFO0], connected)
        IN  /\ sourceToTargets = w.s2t
            /\ targetToSource = w.t2s
            /\ lastModValues = EmptyMap
            /\ engine = w.eng
            /\ paramValue = w.par
            /\ modSource = [p \in Params |->
                               IF \E t \in connected : ParamOf(t) = p THEN "LFO" ELSE "None"]
            /\ modIndex = w.idx
            /\ sourceIndex = w.cur
            /\ everPushed = {}
            /\ lastPushed = EmptyMap
            /\ clearedSince = {}
            /\ recv = w.rcv
            /\ lastOp = NoOp

LfoUpdateParameters ==
    /\ pc = "update"
    /\ CommitBlock([Engine EXCEPT !.env = Envelope_updateFromParameters(
                                              @, envelopeMode, envelopeNorms),
                                  !.currentSample = 0,
                                  !.rendered = <<>>,
                                  !.eventLog = <<>>], World, lfos, "midi")

LfoHandleMidiEvent(eventSample, message) ==
    /\ pc = "midi"
    /\ Len(eventLog) < MaxMidiEvents
    /\ eventSample >= currentSample
    /\ CommitBlock(handleMidiEvent(Engine, eventSample, message), World,
                   IF message.kind = "noteOn" THEN handleNoteOnLfos(lfos) ELSE lfos,
                   "midi")

LfoRenderRemaining ==
    /\ pc = "midi"
    /\ CommitBlock(renderRemaining(Engine), World, lfos, "tick")

\* tickEnvelopes and pushEnvelopeModulation
LfoTickEnvelopes ==
    /\ pc = "tick"
    /\ LET p == [Engine EXCEPT !.env = Envelope_tick(@)]
       IN  CommitBlock(p, pushEnvelopeModulation(World, p.env), lfos, "lfo")

LfoRenderAllLFOs(bypassParam) ==
    /\ pc = "lfo"
    /\ LET r == renderAllLFOs(World, lfos, bypassParam)
       IN  CommitBlock(Engine, r.world, r.lfos, "finalize")

LfoFinalizeNotes ==
    /\ pc = "finalize"
    /\ LET p == Oscillator_removeReleasedNotesIf(Engine)
       IN  CommitBlock(p, World, disableIdleLfos(lfos, p.env), "update")

NextLfo ==
    \/ LfoUpdateParameters
    \/ \E k \in 0..(BlockSize - 1), kind \in {"noteOn", "noteOff"} :
          LfoHandleMidiEvent(k, [kind |-> kind, note |-> 60])
    \/ LfoRenderRemaining
    \/ LfoTickEnvelopes
    \/ \E bypassParam \in BOOLEAN : LfoRenderAllLFOs(bypassParam)
    \/ LfoFinalizeNotes

-----------------------------------------------------------------------------
(* Specifications                                                          *)

Init == RouterInit /\ EnvInit /\ ProcInit /\ LfoInit /\ DspInit

Next == RouterNext

Spec == Init /\ [][Next]_vars

NextEnv == EnvNext

SpecEnv == Init /\ [][NextEnv]_vars

\* An envelope left in Auto-Release mode whose voices get no note-off: the mode
\* knob reads Auto Release at every parameter refresh.  processBlock ends every
\* block with tickEnvelopes and the host keeps calling it, so tick is fair.
NextAutoRelease ==
    \/ \E n \in Notes : EnvNoteOn(n)
    \/ \E n \in Notes : EnvGetNextSampleForNote(n)
    \/ EnvTick
    \/ \E n \in EnvelopeSettings : EnvUpdateFromParameters("AutoRelease", n)

SpecAutoRelease == Init /\ [][NextAutoRelease]_vars /\ WF_vars(EnvTick)

\* An envelope left in Normal mode, played with note-ons and note-offs.  tick is
\* fair for the same reason.
NextRelease ==
    \/ \E n \in Notes : EnvNoteOn(n)
    \/ \E n \in Notes : EnvNoteOff(n)
    \/ \E n \in Notes : EnvGetNextSampleForNote(n)
    \/ EnvTick
    \/ \E n \in EnvelopeSettings : EnvUpdateFromParameters("Normal", n)

SpecRelease == Init /\ [][NextRelease]_vars /\ WF_vars(EnvTick)

SpecProcessor == Init /\ [][NextProcessor]_vars

InitLfoBuffer ==
    /\ RouterInit /\ EnvInit /\ ProcInit /\ LfoInit /\ KeyboardInit /\ FilterInit
    /\ UnisonInit
    /\ \E params \in LfoScenarios : LfoBufferInit(params)

SpecLfoBuffer == InitLfoBuffer /\ [][NextLfoBuffer]_vars

SpecFilter == Init /\ [][NextFilter]_vars

SpecUnison == Init /\ [][NextUnison]_vars

\* A keyboard played over the whole range while the Octave box is moved between
\* blocks.  The host sends a note-on for a key that is up and a note-off for a key
\* that is down, at the first sample of a block.
NextOctave ==
    \/ \E newOctave \in OctaveOffsets : OctUpdateParameters(newOctave)
    \/ \E key \in OctaveKeys : OctNoteOn(0, key)
    \/ \E key \in OctaveKeys : OctNoteOff(0, key)
    \/ RenderRemaining
    \/ TickEnvelopes
    \/ FinalizeNotes

SpecOctave == Init /\ [][NextOctave]_vars

\* A session in which the host restores the plugin's state: the editor connects
\* and disconnects targets and the host calls setStateInformation.
NextRestore ==
    \/ \E s \in Sources, t \in Targets : Connect(s, t)
    \/ \E t \in Targets : Disconnect(t)
    \/ \E tree \in PresetTrees, sourceFirst \in BOOLEAN : SetStateInformation(tree, sourceFirst)

SpecRestore == Init /\ [][NextRestore]_vars

InitStale == StaleRouterInit /\ EnvInit /\ ProcInit /\ LfoInit /\ DspInit

NextStale == StaleRouterNext

SpecStale == InitStale /\ [][NextStale]_vars

InitLfo == LfoRouterInit /\ EnvInit /\ ProcInit /\ LfoInit /\ DspInit

SpecLfo == InitLfo /\ [][NextLfo]_vars

\* The same processor when the parameter the targets drive is the Sustain knob of
\* the envelope: updateParameters loads it from the APVTS with the other knobs
\* (Envelope::updateFromParameters), and nothing else in the block reads it.
BlockUpdateParameters ==
    /\ pc = "update"
    /\ CommitBlock([Engine EXCEPT !.env = Envelope_updateFromParameters(
                                              @, envelopeMode,
                                              [envelopeNorms EXCEPT
                                                  !.sustain = paramValue["A"]]),
                                  !.currentSample = 0,
                                  !.rendered = <<>>,
                                  !.eventLog = <<>>], World, lfos, "midi")

NextBlock ==
    \/ BlockUpdateParameters
    \/ \E k \in 0..(BlockSize - 1), kind \in {"noteOn", "noteOff"} :
          LfoHandleMidiEvent(k, [kind |-> kind, note |-> 60])
    \/ LfoRenderRemaining
    \/ LfoTickEnvelopes
    \/ \E bypassParam \in BOOLEAN : LfoRenderAllLFOs(bypassParam)
    \/ LfoFinalizeNotes

SpecBlock == InitLfo /\ [][NextBlock]_vars

InitStartup == StartupInit /\ EnvInit /\ ProcInit /\ LfoInit /\ DspInit

NextStartup == StartupNext

SpecStartup == InitStartup /\ [][NextStartup]_vars

-----------------------------------------------------------------------------
(* Properties of the router                                                *)

\* the sources whose vector holds target t
SourcesHolding(t) == {s \in DOMAIN sourceToTargets : t \in SeqToSet(sourceToTargets[s])}

HasEdge(t, s) == t \in DOMAIN targetToSource /\ targetToSource[t] = s

\* a source that has pushed since the router was last emptied
Alive(s) == s \in everPushed \ clearedSince

\* C1: after any sequence of router operations every target occurs in the vector
\* of at most one source and at most once there, and right after connect(source,
\* target) the target is held by the new source only.
C1_AtMostOneSource ==
    /\ \A t \in Targets :
          /\ Cardinality(SourcesHolding(t)) <= 1
          /\ \A s \in DOMAIN sourceToTargets : Occurrences(sourceToTargets[s], t) <= 1
    /\ lastOp.op = "connect" =>
          /\ SourcesHolding(lastOp.target) = {lastOp.source}
          /\ HasEdge(lastOp.target, lastOp.source)

\* a connect has just replaced an edge from another source, while the other
\* target is still driven by that source
C1_Witness ==
    /\ lastOp.op = "connect"
    /\ lastOp.prev # <<>>
    /\ lastOp.prev[1] # lastOp.source
    /\ \E t \in Targets \ {lastOp.target} : HasEdge(t, lastOp.prev[1])

\* C2: a push on source S calls setModulationValue(v), once, on exactly the
\* targets whose current source is S, and leaves the state of every other target
\* (mode, range, value) as it was.
C2_PushReachesExactlyTargetsOfSource ==
    [][lastOp'.op = "push" =>
          \A t \in Targets :
              IF HasEdge(t, lastOp'.source)
              THEN recv'[t] = <<lastModValues'[lastOp'.source]>>
              ELSE recv'[t] = <<>> /\ engine'[t] = engine[t]]_vars

\* a push has just happened on a source that a target was moved away from, while
\* the source still drives the other target
C2_Witness ==
    /\ lastOp.op = "push"
    /\ \E t1, t2 \in Targets :
          /\ HasEdge(t1, lastOp.source)
          /\ t2 \in DOMAIN targetToSource /\ targetToSource[t2] # lastOp.source
          /\ recv[t1] # <<>>
          /\ recv[t2] = <<>>

-----------------------------------------------------------------------------
(* Claims about the envelope's voice pool                                  *)

ActiveSlots == {i \in Slots : voiceEnvelopes[i].active}

HoldsNote(i, n) == voiceEnvelopes[i].active /\ voiceEnvelopes[i].midiNote = n

\* C6: after any sequence of noteOn, noteOff, getNextSampleForNote and tick calls
\* no two active slots of the pool hold the same MIDI note.
C6_NoTwoActiveSlotsHoldSameNote ==
    \A i, j \in Slots :
        (i # j /\ voiceEnvelopes[i].active /\ voiceEnvelopes[j].active)
            => voiceEnvelopes[i].midiNote # voiceEnvelopes[j].midiNote

\* C7: a noteOn for a note no slot holds, made while every slot is active, changes
\* no slot's note, active flag or ADSR state and nothing else of the envelope; the
\* pool never has more active voices than it has slots.
C7_NoteOnDroppedWhenPoolFull ==
    /\ [](Cardinality({i \in DOMAIN voiceEnvelopes : voiceEnvelopes[i].active})
            <= maxPolyphony)
    /\ [][\A n \in Notes :
            (EnvNoteOn(n) /\ ActiveSlots = Slots /\ \A i \in Slots : ~HoldsNote(i, n))
                => UNCHANGED <<voiceEnvelopes, envelopeMode, envelopeNorms>>]_vars

\* a noteOn has just been dropped: every slot is active, with notes of its own
C7_Witness ==
    /\ noteOnDropped
    /\ ActiveSlots = Slots
    /\ \E n \in Notes : \A i \in Slots : ~HoldsNote(i, n)

\* the slots whose EnvelopeADSR produces a sample in a step of getNextSampleForNote
\* or tick
PulledBy(n) == {i \in Slots : HoldsNote(i, n)}

\* C9, for one slot whose EnvelopeADSR has produced a sample in this step: a voice
\* that has been in Auto-Release since its note-on is releasing (or finished) after
\* the sample if its output had reached 0.99 before and this sample is at or below
\* the sustain level, and it does not start to release otherwise
AutoReleaseRule(i) ==
    LET v == voiceEnvelopes[i]
        output == voiceEnvelopes'[i].envelopeVal
        fallen == i \in peaked /\ output <= v.parameters.sustain
    IN  i \in autoSince =>
          /\ fallen => voiceEnvelopes'[i].state \in {"release", "idle"}
          /\ (v.state \notin {"release", "idle"} /\ voiceEnvelopes'[i].state = "release")
                => fallen

\* C9: in Auto-Release mode a voice started by noteOn enters release on its own,
\* with no noteOff, at the first sample at or below the sustain level after its
\* output reached 0.99, and not before; and, as long as samples keep being pulled,
\* every such voice becomes inactive unless a noteOn starts its slot again.
C9_AutoReleaseVoiceReleasesItself ==
    /\ [][/\ \A n \in Notes :
               EnvGetNextSampleForNote(n) => \A i \in PulledBy(n) : AutoReleaseRule(i)
          /\ EnvTick => \A i \in ActiveSlots : AutoReleaseRule(i)]_vars
    /\ \A i \in Slots :
          \/ []<><<\E n \in Notes : EnvNoteOn(n) /\ ClaimedSlot(EnvelopeObject, n) = i>>_vars
          \/ []<>~(voiceEnvelopes[i].active /\ i \in autoSince)

\* an Auto-Release voice that peaked is releasing, by itself
C9_Witness ==
    \E i \in autoSince \cap peaked :
        /\ voiceEnvelopes[i].active
        /\ voiceEnvelopes[i].state = "release"
        /\ voiceEnvelopes[i].releaseTriggered
        /\ voiceEnvelopes[i].envelopeVal > 0

\* C10: in Auto-Release mode a noteOff for a sounding note leaves the voices as
\* they are: no slot's ADSR state, level or active flag changes.
C10_NoteOffIgnoredInAutoRelease ==
    [][\A n \in Notes :
          (EnvNoteOff(n) /\ envelopeMode = "AutoRelease" /\ PulledBy(n) # {})
              => \A i \in Slots :
                    /\ voiceEnvelopes'[i].state = voiceEnvelopes[i].state
                    /\ voiceEnvelopes'[i].envelopeVal = voiceEnvelopes[i].envelopeVal
                    /\ voiceEnvelopes'[i].active = voiceEnvelopes[i].active]_vars

-----------------------------------------------------------------------------
(* Claims about the block processor                                        *)

\* the events of this block applied at or before a sample position
EventsUpTo(sample) == {e \in 1..Len(eventLog) : eventLog[e] <= sample}

\* C5: within one block the events are applied in non-decreasing sample position;
\* the samples are rendered once each, in increasing order from 0, up to the
\* current event while the events are walked and up to the block size after them;
\* and each sample is rendered after exactly the events at or before its position.
C5_SamplesRenderedOnceInOrder ==
    /\ \A e \in 1..(Len(eventLog) - 1) : eventLog[e] <= eventLog[e + 1]
    /\ \A j \in 1..Len(rendered) : rendered[j].sample = j - 1
    /\ pc = "midi" => Len(rendered) = currentSample
    /\ pc \in {"tick", "finalize"} => Len(rendered) = BlockSize
    /\ \A j \in 1..Len(rendered) :
          rendered[j].applied = Cardinality(EventsUpTo(rendered[j].sample))

\* a block has been rendered around two events at different positions after 0
C5_Witness ==
    /\ pc = "tick"
    /\ Len(eventLog) = 2
    /\ 0 < eventLog[1]
    /\ eventLog[1] < eventLog[2]
    /\ Len(rendered) = BlockSize
    /\ rendered[1].applied = 0
    /\ rendered[BlockSize].applied = 2

\* C8: a MIDI note-off for a sounding note does not itself start the release of
\* the note's envelope: applying the event leaves the ADSR state of the voices that
\* hold the note as the rendering before the event left it, for the zero crossing
\* of a later sample to change.
C8_ReleaseWaitsForZeroCrossing ==
    [][\A k \in 0..(BlockSize - 1), n \in MidiNoteNumbers :
          LET before == renderUpToEvent(Engine, k)
              voice(i) == before.env.voiceEnvelopes[i]
          IN  (HandleMidiEvent(k, [kind |-> "noteOff", note |-> n])
                  /\ n \in DOMAIN before.notes)
              => \A i \in Slots :
                    (voice(i).active /\ voice(i).midiNote = n
                        /\ voice(i).state \notin {"release", "idle"})
                    => voiceEnvelopes'[i].state = voice(i).state]_vars

-----------------------------------------------------------------------------
(* Claims about the envelope's instant settings                            *)

\* C11: in Auto-Release mode, with the attack and the release control both at 0,
\* a noteOn that claims a slot leaves the slot's voice in the release phase with a
\* release time of 50 ms and the release already triggered.
C11_InstantNoteOnJumpsToRelease ==
    [][\A n \in Notes :
          LET slot == ClaimedSlot(EnvelopeObject, n)
          IN  (/\ EnvNoteOn(n)
               /\ envelopeMode = "AutoRelease"
               /\ envelopeNorms.attack = 0
               /\ envelopeNorms.release = 0
               /\ slot \in Slots)
              => /\ voiceEnvelopes'[slot].state = "release"
                 /\ voiceEnvelopes'[slot].parameters.release = 50
                 /\ voiceEnvelopes'[slot].releaseTriggered]_vars

-----------------------------------------------------------------------------
(* Claims about preset loading and the router's disconnect operations      *)

\* the source the persisted _MOD_SOURCE/_MOD_INDEX of a target's base parameter
\* prescribe, as a sequence of at most one source
PrescribedSource(t) ==
    LET p == ParamOf(t)
    IN  IF IsModulated(modSource[p]) THEN <<SourceOf(modSource[p], modIndex[p])>> ELSE <<>>

\* C12: right after a successful preset load every registered target, UI knob or
\* headless proxy, has an edge from exactly the source its loaded _MOD_SOURCE and
\* _MOD_INDEX prescribe, and no edge when they prescribe none.
C12_RoutingMatchesLoadedPreset ==
    lastOp.op = "loadPreset" =>
        \A t \in Targets :
            /\ ModulationRouter_getSourceForTarget(World, t) = PrescribedSource(t)
            /\ \A s \in Sources :
                  (s \in DOMAIN sourceToTargets /\ t \in SeqToSet(sourceToTargets[s]))
                      <=> PrescribedSource(t) = <<s>>

\* the parameter state and the modulation routing
PresetVisibleState ==
    <<paramValue, modSource, modIndex, sourceToTargets, targetToSource,
      lastModValues, engine, sourceIndex>>

\* C13: loadPreset on a file that is not a preset of this plugin returns false and
\* leaves every parameter, every edge, every target's mode and range and the stored
\* source values as they were.
C13_MalformedPresetLeavesStateUntouched ==
    [][\A file \in MalformedFiles :
          LoadMalformedPreset(file)
              => /\ ~PresetManager_loadPresetFile(World, file).result
                 /\ UNCHANGED PresetVisibleState]_vars

\* C14: disconnectAllTargetsUsing(source) leaves every target that had an edge from
\* the source, UI knob or headless proxy, with no edge, in Manual mode and with its
\* base parameter at the default value.
C14_DisconnectAllTargetsUsingResetsTargets ==
    [][\A s \in Sources :
          DisconnectAllTargetsUsing(s) =>
              \A t \in Targets :
                  HasEdge(t, s) =>
                      /\ t \notin DOMAIN targetToSource'
                      /\ \A s2 \in DOMAIN sourceToTargets' :
                            t \notin SeqToSet(sourceToTargets'[s2])
                      /\ engine'[t].mode = "Manual"
                      /\ paramValue'[ParamOf(t)] = ParamDefault(ParamOf(t))]_vars

\* the edges, the stored source values, the targets' state and the parameters
RouterVisibleState ==
    <<sourceToTargets, targetToSource, lastModValues, engine, paramValue,
      modSource, modIndex, sourceIndex>>

\* C15: disconnect(target) on a target that has an edge removes the target from
\* targetToSource and from every source's vector, keeps the edges of the other
\* targets, and leaves the target in Manual mode with range [0, 1]; disconnect on
\* a target without an edge (after an earlier disconnect, or never connected, or
\* null) changes nothing.
C15_DisconnectClearsAndIsIdempotent ==
    [][\A t \in Targets \cup {NullTarget} :
          Disconnect(t) =>
              IF t \in DOMAIN targetToSource
              THEN /\ targetToSource' = MapErase(targetToSource, t)
                   /\ \A s \in DOMAIN sourceToTargets' :
                         /\ t \notin SeqToSet(sourceToTargets'[s])
                         /\ sourceToTargets'[s] = SeqRemove(sourceToTargets[s], t)
                   /\ engine'[t].mode = "Manual"
                   /\ engine'[t].min = 0
                   /\ engine'[t].max = 100
                   /\ \A u \in Targets \ {t} : engine'[u] = engine[u]
              ELSE UNCHANGED RouterVisibleState]_vars

\* a connected target has just been disconnected and reset, while its source keeps
\* another target
C15_Witness ==
    /\ lastOp.op = "disconnect"
    /\ lastOp.prev # <<>>
    /\ lastOp.target \in Targets
    /\ lastOp.target \notin DOMAIN targetToSource
    /\ engine[lastOp.target] = [mode |-> "Manual", min |-> 0, max |-> 100, value |-> 0]
    /\ lastOp.prev[1] \in DOMAIN sourceToTargets

-----------------------------------------------------------------------------
(* Claims about null entries and absent keys in the router                 *)

\* C16: a push on a source whose vector holds null entries completes; it leaves
\* the vector without its null entries and with its other entries in order, calls
\* setModulationValue(v) exactly once on every target of the vector and on no
\* other target, and leaves the other sources' vectors and the reverse edges alone.
C16_PushPrunesNullTargets ==
    [][\A s \in Sources, v \in PushValues :
          PushOverVector(s, v) =>
              /\ s \in DOMAIN sourceToTargets =>
                    sourceToTargets'[s] = NonNull(sourceToTargets[s])
              /\ DOMAIN sourceToTargets' = DOMAIN sourceToTargets
              /\ \A s2 \in DOMAIN sourceToTargets \ {s} :
                    sourceToTargets'[s2] = sourceToTargets[s2]
              /\ targetToSource' = targetToSource
              /\ lastModValues'[s] = v
              /\ \A t \in Targets :
                    recv'[t] = IF t \in SeqToSet(TargetsOf(sourceToTargets, s))
                               THEN <<v>> ELSE <<>>]_vars

\* a push has just pruned a vector that held a null entry, and both of the
\* targets left in it got the value
C16_Witness ==
    /\ lastOp.op = "push"
    /\ lastOp.prev = <<lastOp.source>>
    /\ sourceToTargets[lastOp.source] \in ConnectOrders
    /\ \A t \in Targets : recv[t] = <<lastModValues[lastOp.source]>>

\* the edges and every target's mode, range and parameter value
EdgesAndTargets == <<sourceToTargets, targetToSource, engine, paramValue>>

\* the operations on a target without an edge, or on no target, change nothing
NoEdgeOperationsChangeNothing ==
    /\ (lastOp'.op = "disconnect" /\ lastOp'.target \notin DOMAIN targetToSource)
          => UNCHANGED EdgesAndTargets
    /\ \A t \in Targets \cup {NullTarget} :
          t \notin DOMAIN targetToSource
              => ModulationRouter_getSourceForTarget(World, t) = <<>>

\* push, disconnectAllTargetsUsing and retriggerPush on a source that has no
\* connected target change nothing
NoTargetOperationsChangeNothing ==
    (/\ lastOp'.op \in {"push", "disconnectAllTargetsUsing", "retriggerPush"}
     /\ lastOp'.source \notin DOMAIN sourceToTargets)
        => UNCHANGED EdgesAndTargets

\* C17 as stated: pushModulationValue, disconnectAllTargetsUsing, connectIfAlive and
\* retriggerPush on a source that has no connected target or was never seen,
\* disconnect and getSourceForTarget on a target without an edge and disconnect on
\* null leave every edge and every target's mode, range and parameter unchanged.
C17_Original_UnknownSourceOrTargetIsNoOp ==
    [][/\ NoEdgeOperationsChangeNothing
       /\ NoTargetOperationsChangeNothing
       /\ (lastOp'.op = "connectIfAlive" /\ lastOp'.source \notin DOMAIN sourceToTargets)
             => UNCHANGED EdgesAndTargets]_vars

\* C17 (amended): as stated for pushModulationValue, disconnectAllTargetsUsing,
\* retriggerPush, disconnect and getSourceForTarget; connectIfAlive changes nothing
\* when the source has no stored value (it never pushed, or not since the last
\* disconnectAll), whether or not the source has targets.
C17_UnknownSourceOrTargetIsNoOp ==
    [][/\ NoEdgeOperationsChangeNothing
       /\ NoTargetOperationsChangeNothing
       /\ (lastOp'.op = "connectIfAlive" /\ lastOp'.source \notin DOMAIN lastModValues)
             => UNCHANGED EdgesAndTargets]_vars

\* connectIfAlive has just been called for a source without a stored value and
\* without targets, on a target that keeps its edge from the other source, which
\* has a stored value
C17_Witness ==
    /\ lastOp.op = "connectIfAlive"
    /\ lastOp.source \notin DOMAIN lastModValues
    /\ lastOp.source \notin DOMAIN sourceToTargets
    /\ lastOp.prev # <<>>
    /\ lastOp.prev[1] # lastOp.source
    /\ HasEdge(lastOp.target, lastOp.prev[1])
    /\ lastOp.prev[1] \in DOMAIN lastModValues

-----------------------------------------------------------------------------
(* Claims about the LFO's modulation gating                                *)

\* C18: in a block the LFO pushes a value to its targets only if a note-on has
\* triggered it, it has not been deactivated by all envelopes going idle and it is
\* not bypassed; and at the end of a block in which the LFO is bypassed, or has
\* been triggered and no envelope is active any more, the LFO has no targets left,
\* no target is in LFO mode, and the base parameter of every target that was
\* disconnected is at its default.
C18_LfoModulatesOnlyWhileActive ==
    [][/\ \A bypassParam \in BOOLEAN :
             (LfoRenderAllLFOs(bypassParam) /\ \E t \in Targets : recv'[t] # <<>>)
                 => /\ LFO_isActive(lfos[0])
                    /\ LFO_isModulationActive(lfos[0])
                    /\ ~bypassParam
       /\ (/\ LfoFinalizeNotes
           /\ \/ LFO_isBypassed(lfos'[0])
              \/ LFO_isActive(lfos[0]) /\ \A i \in Slots : ~voiceEnvelopes'[i].active)
             => /\ LFO0 \notin DOMAIN sourceToTargets'
                /\ \A t \in Targets :
                      /\ engine'[t].mode # "LFO"
                      /\ engine'[t].mode = "Manual"
                            => paramValue'[ParamOf(t)] = ParamDefault(ParamOf(t))]_vars

\* the proxies the processor owns for the base parameter id
ProxiesOfBase(id) == {t \in DOMAIN engine : engine[t].base = id}

\* proxy t is in the router's maps under source s, and under no other source
RoutedTo(t, s) ==
    /\ t \in DOMAIN targetToSource
    /\ targetToSource[t] = s
    /\ \A x \in DOMAIN sourceToTargets :
          Occurrences(sourceToTargets[x], t) = (IF x = s THEN 1 ELSE 0)
    /\ s \in DOMAIN sourceToTargets

Unrouted(t) ==
    /\ t \notin DOMAIN targetToSource
    /\ \A x \in DOMAIN sourceToTargets : Occurrences(sourceToTargets[x], t) = 0

RemappedValue(t, v) ==
    jlimit(0, 100, engine'[t].min + ((engine'[t].max - engine'[t].min) * v) \div 100)

\* the targets driving parameter p that were handed a modulation value in the step
Receivers(p) == {t \in Targets : ParamOf(t) = p /\ recv'[t] # <<>>}

\* C20: in every step in which targets, knobs or proxies, are handed modulation
\* values, the parameter they drive ends as clamp(min + (max - min) * v, 0, 1)
\* for the last value v handed to one of them, [min, max] being that target's
\* modulation range; with a single receiver that is the receiver's own remap.
C20_SetModulationValueRemapsAndClamps ==
    [][\A p \in Params :
          Receivers(p) # {} =>
             \E t \in Receivers(p) :
                paramValue'[p] = RemappedValue(t, recv'[t][Len(recv'[t])])]_vars

\* a knob and a proxy with range [0.2, 0.6] were both handed 0.75 and the
\* parameter holds 0.2 + 0.4 * 0.75 = 0.5
C20_Witness ==
    /\ \A t \in Targets : /\ recv[t] = <<75>>
                          /\ engine[t].min = 20
                          /\ engine[t].max = 60
    /\ \E k \in Knobs : IsModulated(engine[k].mode)
    /\ paramValue["A"] = 50

\* C25: the two maps of the router agree in every reachable state: a target is
\* mapped to source s in targetToSource exactly when it occurs in
\* sourceToTargets[s], and it occurs there once.
C25_RouterMapsAgree ==
    \A t \in Targets, s \in Sources :
       /\ (t \in DOMAIN targetToSource /\ targetToSource[t] = s)
             <=> Occurrences(TargetsOf(sourceToTargets, s), t) > 0
       /\ Occurrences(TargetsOf(sourceToTargets, s), t) <= 1

\* both targets are connected, each to another source, after one of them was
\* moved there from the source of the other
C25_Witness ==
    /\ lastOp.op = "connect"
    /\ lastOp.prev # <<>>
    /\ lastOp.prev # <<lastOp.source>>
    /\ DOMAIN targetToSource = Targets
    /\ \E t1, t2 \in Targets : targetToSource[t1] # targetToSource[t2]

PullsSlot(i) ==
    /\ voiceEnvelopes[i].active
    /\ \/ voiceEnvelopes' = Envelope_tick(EnvelopeObject).voiceEnvelopes
       \/ voiceEnvelopes' = Envelope_getNextSampleForNote(
                               EnvelopeObject, voiceEnvelopes[i].midiNote).voiceEnvelopes

\* C23: a slot goes from active to free (active false, note -1) in a step exactly
\* when the step is a tick or getNextSampleForNote call that pulls a sample from
\* the slot and leaves its ADSR idle; and while tick keeps being called no voice
\* stays in its slot for ever once it is releasing or finished.
C23_SlotFreedWhenAdsrFinished ==
    /\ [][\A i \in Slots :
             /\ (voiceEnvelopes[i].active /\ ~voiceEnvelopes'[i].active)
                   => /\ PullsSlot(i)
                      /\ voiceEnvelopes'[i].state = "idle"
                      /\ voiceEnvelopes'[i].midiNote = -1
             /\ (PullsSlot(i)
                   /\ ~ADSR_isActive(EnvelopeADSR_getNextSample(voiceEnvelopes[i])))
                   => ~voiceEnvelopes'[i].active /\ voiceEnvelopes'[i].midiNote = -1]_vars
    /\ \A i \in Slots :
          []<>~(voiceEnvelopes[i].active /\ voiceEnvelopes[i].state \in {"release", "idle"})

\* a voice released by noteOff has finished and its slot is free again while
\* another voice still sounds
C23_Witness ==
    /\ \E i \in Slots : /\ ~voiceEnvelopes[i].active
                        /\ voiceEnvelopes[i].midiNote = -1
                        /\ voiceEnvelopes[i].state = "idle"
                        /\ voiceEnvelopes[i].envelopeVal <= 0
                        /\ voiceEnvelopes[i].releaseRate > 0
                        /\ voiceEnvelopes[i].parameters.release > MIN_ADSR_TIME_MS
    /\ \E j \in Slots : voiceEnvelopes[j].active /\ voiceEnvelopes[j].state = "sustain"

-----------------------------------------------------------------------------
(* The note map at the end of a block.                                     *)

\* a note of the map whose voice has finished: its note-off has been passed to
\* the envelope and the envelope reports the note inactive (in Normal mode only
\* a note-off lets a voice finish)
FinishedNote(n) ==
    /\ n \in DOMAIN notes
    /\ envelopeMode = "Normal"
    /\ ~notes[n].pendingNoteOff
    /\ ~Envelope_isNoteActive(EnvelopeObject, n)

\* C22: the cleanup at the end of a block (finalizeNotes) removes from the note
\* map exactly the notes that have been released and that the envelope reports
\* inactive, so that when the next block starts the map holds no finished note.
C22_FinishedNotesRemoved ==
    /\ [](pc = "update" => \A n \in DOMAIN notes : ~FinishedNote(n))
    /\ [][(pc = "finalize" /\ pc' = "update")
             => \A n \in DOMAIN notes : (n \notin DOMAIN notes') <=> FinishedNote(n)]_vars

-----------------------------------------------------------------------------
(* The phases of a block.                                                  *)

\* a modulation value reaches the router or a parameter in this step
ModulationPushed ==
    \/ paramValue' # paramValue
    \/ lastModValues' # lastModValues
    \/ \E t \in Targets : recv'[t] # <<>>

\* C24: processBlock runs its phases in the order parameter refresh, rendering
\* of the whole block between the MIDI events, envelope tick with the envelope
\* push, LFO advance with the LFO push, cleanup.  A modulation value is pushed
\* only in the two push phases and only when every sample of the block has been
\* rendered; the rendering reads the parameters as the refresh at the start of
\* the block loaded them, so a pushed value is first heard in the next block.
C24_PhasesInOrder ==
    [][/\ pc' # pc =>
             <<pc, pc'>> \in {<<"update", "midi">>, <<"midi", "tick">>, <<"tick", "lfo">>,
                              <<"lfo", "finalize">>, <<"finalize", "update">>}
       /\ rendered' # rendered => pc \in {"update", "midi"}
       /\ pc = "midi" /\ pc' = "tick" => Len(rendered') = BlockSize
       /\ ModulationPushed =>
             /\ pc \in {"tick", "lfo"}
             /\ Len(rendered) = BlockSize
             /\ rendered' = rendered
       /\ pc = "update" => envelopeNorms'.sustain = paramValue["A"]
       /\ pc # "update" => envelopeNorms' = envelopeNorms]_vars

\* the level the running LFO's wave makes of the Sustain knob
LfoSustain == ApvtsMin("A") + ((ApvtsMax("A") - ApvtsMin("A")) * LfoWaveValue) \div 100

\* a held note is being rendered with the sustain level the LFO pushed at the end
\* of an earlier block, which the refresh of this block loaded
C24_Witness ==
    /\ pc = "midi"
    /\ Len(rendered) > 0
    /\ notes # EmptyMap
    /\ LFO0 \in DOMAIN lastModValues
    /\ paramValue["A"] = LfoSustain
    /\ envelopeNorms.sustain = LfoSustain
    /\ LfoSustain # ParamDefault("A")

-----------------------------------------------------------------------------
(* The routing after the host has restored the state.                      *)

\* target t has no edge in either map
NoEdge(t) ==
    /\ t \notin DOMAIN targetToSource'
    /\ \A s \in DOMAIN sourceToTargets' : t \notin SeqToSet(sourceToTargets'[s])

\* target t has its one edge from source s
OnlyEdge(t, s) ==
    /\ t \in DOMAIN targetToSource' /\ targetToSource'[t] = s
    /\ \A s2 \in DOMAIN sourceToTargets' :
          t \in SeqToSet(sourceToTargets'[s2]) => s2 = s

\* C27: after setStateInformation a target whose restored _MOD_SOURCE is neither
\* Envelope nor LFO has no edge and is in Manual mode (not in one of the
\* two modulated modes: a target that was never modulated is still in the mode
\* None it was constructed with), and a target whose
\* restored source differs from the one its parameters named before is
\* connected to the restored source and to no other.
C27_NoStaleEdgeAfterRestore ==
    [][lastOp'.op = "setStateInformation" =>
          \A t \in Targets :
             LET p == ParamOf(t)
             IN  /\ ~IsModulated(modSource'[p]) =>
                       NoEdge(t) /\ ~IsModulated(engine'[t].mode)
                 /\ (IsModulated(modSource'[p])
                       /\ <<modSource'[p], modIndex'[p]>> # <<modSource[p], modIndex[p]>>)
                       => OnlyEdge(t, SourceOf(modSource'[p], modIndex'[p]))]_vars

-----------------------------------------------------------------------------
(* Keys and the voices they start.                                         *)

\* the envelope's voice for a note, as a set of at most one slot record
VoiceFor(venv, n) == {venv[i] : i \in {j \in Slots : venv[j].active /\ venv[j].midiNote = n}}

\* C28: a note-off for a key addresses the transposed note the key's note-on
\* started, and a note-on or note-off for one key leaves the voice of every
\* other key that is held down as it is (neither started again nor released),
\* for every setting of the octave and also where the transposed note is
\* clamped to 0 or 127.
C28_KeyAddressesOwnVoice ==
    [][(heldKeys' # heldKeys /\ rendered' = rendered) =>
          /\ \A key \in (DOMAIN heldKeys) \ (DOMAIN heldKeys') :
                calculateMidiNoteWithOctaveOffset(key) = heldKeys[key]
          /\ \A other \in (DOMAIN heldKeys) \cap (DOMAIN heldKeys') :
                LET n == heldKeys[other]
                IN  /\ VoiceFor(voiceEnvelopes', n) = VoiceFor(voiceEnvelopes, n)
                    /\ n \in DOMAIN notes => (n \in DOMAIN notes' /\ notes'[n] = notes[n])]_vars

-----------------------------------------------------------------------------
(* What getNextValue returns after advance.                                *)

\* the first block of the Square scenario has been computed from phase 0
SquareBlockReady ==
    /\ lfoParams = SquareScenario
    /\ lfoBlocks = 1
    /\ advanceIndex = -1

\* C21 as stated: after advance(N, sampleRate) the k-th following call of
\* getNextValue (k = 0, 1, ...) returns the value computed for sample k mod N of
\* the block; in the Square scenario the calls k < 12000 return 1.0 and the
\* calls 12000 <= k < 24000 return 0.0.
C21_KthCallReturnsSampleK ==
    [][(advanceIndex = -1 /\ lfoBlocks > 0 /\ lfoReturned' # lfoReturned) =>
          /\ lfoReturned'.value =
                BufferAt(modulationBuffer, lfoReads % lfoParams.samplesPerBlock)
          /\ (SquareBlockReady /\ lfoReads < lfoParams.samplesPerBlock)
                => lfoReturned'.value =
                      (IF 2 * lfoReads < lfoParams.samplesPerBlock THEN 100 ELSE 0)]_vars

\* C21, amended: advance(N, sampleRate) with N >= 1 leaves N values in the
\* buffer and the index at 0; while the LFO is modulation-active the k-th
\* following call of getNextValue returns the value computed for sample k mod N
\* and moves the index to (k + 1) mod N, and a call while the LFO is not
\* modulation-active returns 0 and leaves the index.  In the Square scenario
\* the float phase is still below 0.5 at sample 12000: the calls k <= 12000
\* return 1.0 and the calls 12000 < k < 24000 return 0.0.
C21_ActiveKthCallReturnsSampleK ==
    /\ [](advanceIndex = -1 /\ lfoBlocks > 0
            => BufferSize(modulationBuffer) = lfoParams.samplesPerBlock)
    /\ [][(advanceIndex = -1 /\ advanceIndex' = -1 /\ lfoBlocks > 0
              /\ lfoBlocks' = lfoBlocks /\ lfos' = lfos) =>
            IF lfos[0].modulationActive
            THEN /\ lfoReturned' # lfoReturned \/ lfoReads' # lfoReads
                    => /\ lfoReads' = lfoReads + 1
                       /\ bufferIndex = lfoReads % lfoParams.samplesPerBlock
                       /\ bufferIndex' = (lfoReads + 1) % lfoParams.samplesPerBlock
                       /\ lfoReturned' =
                             [value |-> BufferAt(modulationBuffer,
                                                 lfoReads % lfoParams.samplesPerBlock),
                              readBuffer |-> TRUE]
                       /\ (SquareBlockReady /\ lfoReads < lfoParams.samplesPerBlock)
                             => lfoReturned'.value =
                                   (IF 2 * lfoReads <= lfoParams.samplesPerBlock
                                    THEN 100 ELSE 0)
            ELSE /\ lfoReturned'.value = 0
                 /\ bufferIndex' = bufferIndex
                 /\ lfoReads' = lfoReads]_vars

\* in the Square scenario the buffer has been read to its end and the call
\* after that has returned sample 0 again
C21_Witness ==
    /\ lfoParams = SquareScenario
    /\ lfoBlocks = 1
    /\ lfoReads = lfoParams.samplesPerBlock + 1
    /\ bufferIndex = 1
    /\ lfoReturned = [value |-> 100, readBuffer |-> TRUE]
    /\ BufferAt(modulationBuffer, lfoParams.samplesPerBlock - 1) = 0

-----------------------------------------------------------------------------
(* The filter's dirty flag.                                                *)

\* C29: needsUpdate is set only by a call that changes a parameter of the
\* filter, updateFilter runs only when the flag is set, the flag is cleared
\* only in process or updateParametersIfNeeded by the call that ran
\* updateFilter, a filter whose parameters are what they were at the last
\* updateFilter is not recomputed, and a process call that filters leaves the
\* flag clear and the ladder filter configured with the live parameters.
C29_DirtyFlagProtocol ==
    [][/\ (~needsUpdate /\ needsUpdate') => currentParams' # currentParams
       /\ (filterLast' # filterLast /\ filterLast'.updated) =>
             /\ needsUpdate
             /\ paramsAtUpdate # <<currentParams>>
       /\ (needsUpdate /\ ~needsUpdate') =>
             /\ filterLast'.updated
             /\ filterLast'.op \in {"process", "updateParametersIfNeeded"}
       /\ (filterLast' # filterLast /\ filterLast'.filtered) =>
             /\ ~needsUpdate'
             /\ ladderFilter' = LadderSettings(currentParams')]_vars

-----------------------------------------------------------------------------
(* The arrays getNextSample indexes.                                       *)

\* C30: the voice count is in 1..8, every note of the map has as many phases
\* as the oscillator has voices, so getNextSample skips no note, and every
\* index getNextSample uses into a note's phases and into the cached detune and
\* pan-gain arrays is within bounds; the three cached arrays have one entry for
\* each voice whenever getNextSample runs.
C30_VoiceIndicesInBounds ==
    /\ [](/\ latestVoices \in 1..maxVoices
          /\ \A n \in DOMAIN notePhases : Len(notePhases[n]) = latestVoices
          /\ ~unisonOp.outOfBounds
          /\ unisonOp.op = "processBlock" =>
                /\ unisonOp.rendered = DOMAIN notePhases
                /\ cachedSizes = [detune |-> latestVoices, left |-> latestVoices,
                                  right |-> latestVoices])
    /\ [][unisonOp'.op = "processBlock" /\ unisonOp' # unisonOp =>
             \A n \in unisonOp'.rendered : Len(notePhases[n]) = latestVoices]_vars

\* two notes are held and have just been rendered with more than one voice; one
\* of them got its phases when the voice count changed under it and the other
\* copied them at its note-on, so both have phases that differ between voices
C30_Witness ==
    /\ unisonOp.op = "processBlock"
    /\ unisonOp.rendered = UnisonKeys
    /\ latestVoices > 1
    /\ \A n \in UnisonKeys : /\ Len(notePhases[n]) = latestVoices
                             /\ notePhases[n][1] # notePhases[n][latestVoices]
    /\ notePhases[60] = notePhases[61]

====
